---------------------------- MODULE Spec2Model ----------------------------
(***************************************************************************)
(* Verification model of the fund-analyzer scoring engine and backtest     *)
(* harness.                                                                *)
(*                                                                         *)
(* Number conventions                                                      *)
(*   - A JavaScript number read from an input record is a pair             *)
(*     <<kind, v>>: kind "fin" with v the value in thousandths, or one of  *)
(*     "nan", "inf", "ninf" (v = 0).                                       *)
(*   - Intermediate scores are exact rationals <<n, d>> in lowest terms    *)
(*     with d > 0 (the code computes them in binary floating point).       *)
(*   - Scores after round1 are integers counting tenths of a point.        *)
(*   - Fund type texts are sequences of characters; each Chinese character *)
(*     is written as its pinyin syllable.                                  *)
(***************************************************************************)
EXTENDS Integers, Sequences, FiniteSets, TLC

VARIABLES
    fund,        \* scoreFund: the FundData record passed in
    score,       \* scoreFund: the FundScore returned, <<>> before the call
    fundType,    \* classifyRiskTier: the type text passed in
    volatility,  \* classifyRiskTier: the volatility passed in
    riskTier,    \* classifyRiskTier: the tier returned, "" before the call
    accNavData,  \* backtestAtDate: the series [[day, accNav], ...] passed in
    evalDate,    \* backtestAtDate: the evaluation date T, a day number
    forwardYears,\* backtestAtDate: the requested forward horizons, in years
    meta,        \* backtestAtDate: the fund's current meta record
    backtest,    \* backtestAtDate: its locals and what it returned
    laterNavData,\* a second series, equal to accNavData on every point <= T
    laterBacktest,\* backtestAtDate on laterNavData: its locals and what it returned
    quant,       \* scoreFundDeep: the QuantMetrics passed in, <<>> when omitted
    holdings,    \* scoreFundDeep: the FundHoldings passed in, <<>> when omitted
    deepScore,   \* scoreFundDeep: the DeepFundScore returned, <<>> before the call
    industryHHI, \* calcHHI: what it returned on holdings, <<>> before the call
    rawNavData,  \* calcMultiPeriodRiskMetrics: navData, <<>> for null or <<series>>
    trailingReturn, \* calcMultiPeriodRiskMetrics: the returnYear1 passed in
    riskBreakdown,  \* calcMultiPeriodRiskMetrics: its locals and what it returned
    fundNavs,    \* risk analysis: the fund's NavRecord list
    benchmarkData,  \* risk analysis: the benchmark's BenchmarkRecord list
    riskAnalysis,   \* risk analysis: what the four calls returned
    itemArgs,    \* item scoring: the value, benchmark and maxScore passed in
    itemScores,  \* item scoring: what scoreHigherBetter and scoreLowerBetter returned
    batchArgs,   \* backtestBatch: codes, startDate, endDate, stepMonths, forwardYears
    fundIdx,     \* backtestBatch: position of the for loop over codes
    current,     \* backtestFund: the loop's evaluation date, <<>> outside the loop
    results,     \* backtestFund: the samples pushed so far
    allResults,  \* backtestBatch: the samples of the funds done so far
    report,      \* backtestBatch: the report returned, <<>> before
    clock,       \* Date.now(), in milliseconds
    lastRequestTime, \* httpClient: the module's lastRequestTime
    inFlight,    \* httpClient: where each fetchWithRetry call stands
    requests,    \* httpClient: the times at which axios.get was called
    replay,      \* repeated calls: the inputs and results of the first calls
    pc           \* which call is pending or done

scoreVars == <<fund, score>>
tierVars == <<fundType, volatility, riskTier>>
backtestVars ==
    <<accNavData, evalDate, forwardYears, meta, backtest, laterNavData, laterBacktest>>
deepVars == <<quant, holdings, deepScore, industryHHI>>
periodVars == <<rawNavData, trailingReturn, riskBreakdown>>
quantVars == <<fundNavs, benchmarkData, riskAnalysis>>
itemVars == <<itemArgs, itemScores>>
batchVars == <<batchArgs, fundIdx, current, results, allResults, report>>
httpVars == <<clock, lastRequestTime, inFlight, requests>>
laterVars == <<itemVars, batchVars, httpVars, replay>>
analysisVars == <<deepVars, periodVars, quantVars, laterVars>>
vars == <<scoreVars, tierVars, backtestVars, analysisVars, pc>>

-----------------------------------------------------------------------------
(* JavaScript numbers *)

Fin(v) == <<"fin", v>>
NaN == <<"nan", 0>>
PosInf == <<"inf", 0>>
NegInf == <<"ninf", 0>>

\* Number.isFinite
isFinite(x) == x[1] = "fin"

\* x >= c, x <= c, x > c, x < c for a finite c in thousandths; any comparison
\* with NaN is false
JsGe(x, c) == (x[1] = "fin" /\ x[2] >= c) \/ x[1] = "inf"
JsLe(x, c) == (x[1] = "fin" /\ x[2] <= c) \/ x[1] = "ninf"
JsGt(x, c) == (x[1] = "fin" /\ x[2] > c) \/ x[1] = "inf"
JsLt(x, c) == (x[1] = "fin" /\ x[2] < c) \/ x[1] = "ninf"

-----------------------------------------------------------------------------
(* Exact rationals *)

Abs(n) == IF n < 0 THEN -n ELSE n

RECURSIVE GCD(_, _)
GCD(a, b) == IF b = 0 THEN a ELSE GCD(b, a % b)

Rat(n, d) ==
    LET s == IF d < 0 THEN -1 ELSE 1
        g == GCD(Abs(n), Abs(d))
    IN  <<(s * n) \div g, (s * d) \div g>>

RInt(n) == <<n, 1>>
RAdd(a, b) ==
    LET g == GCD(a[2], b[2])
    IN  Rat(a[1] * (b[2] \div g) + b[1] * (a[2] \div g), (a[2] \div g) * b[2])
RMul(a, b) ==
    LET g1 == GCD(Abs(a[1]), b[2])
        g2 == GCD(Abs(b[1]), a[2])
    IN  Rat((a[1] \div g1) * (b[1] \div g2), (a[2] \div g2) * (b[2] \div g1))
RDiv(a, b) == RMul(a, IF b[1] < 0 THEN <<-b[2], -b[1]>> ELSE <<b[2], b[1]>>)
RLe(a, b) == a[1] * b[2] <= b[1] * a[2]
RMax(a, b) == IF RLe(a, b) THEN b ELSE a
RMin(a, b) == IF RLe(a, b) THEN a ELSE b

\* a value in thousandths as a rational
Milli(v) == Rat(v, 1000)

-----------------------------------------------------------------------------
(* Fund type texts and the regular-expression tests made on them *)

\* pattern occurs in s starting at position i
MatchAt(s, pat, i) ==
    /\ i >= 1
    /\ i + Len(pat) - 1 <= Len(s)
    /\ \A k \in 1..Len(pat) : s[i + k - 1] = pat[k]

\* /pat/.test(s) for a literal pattern
Contains(s, pat) == \E i \in 1..Len(s) : MatchAt(s, pat, i)

\* /a.*b/.test(s) for literal a and b
ContainsThen(s, a, b) ==
    \E i \in 1..Len(s) : \E j \in 1..Len(s) :
        MatchAt(s, a, i) /\ j >= i + Len(a) /\ MatchAt(s, b, j)

\* /p1|p2|.../.test(s)
ContainsAny(s, pats) == \E pat \in pats : Contains(s, pat)

classifyFund(type) ==
    IF ContainsAny(type, {<<"zhai4", "quan4">>, <<"chun2", "zhai4">>,
                          <<"duan3", "zhai4">>, <<"zhong1", "duan3", "zhai4">>,
                          <<"chang2", "zhai4">>, <<"pian1", "zhai4">>})
    THEN "bond"
    ELSE IF ContainsAny(type, {<<"gu3", "piao4">>, <<"pian1", "gu3">>,
                               <<"zhi3", "shu4">>})
    THEN "equity"
    ELSE "balanced"

-----------------------------------------------------------------------------
(* Risk tiers *)

tierOrder == <<"very_low", "low", "medium", "medium_high", "high">>

\* Array.prototype.indexOf, 1-based
indexOf(seq, x) == CHOOSE i \in 1..Len(seq) : seq[i] = x

Max(a, b) == IF a >= b THEN a ELSE b
Min(a, b) == IF a <= b THEN a ELSE b

\* step 1 of classifyRiskTier: the tier the type text gives
typeTierOf(type) ==
    IF ContainsAny(type, {<<"huo4", "bi4">>, <<"chao1", "duan3", "zhai4">>})
    THEN "very_low"
    ELSE IF \/ ContainsAny(type, {<<"chun2", "zhai4">>, <<"duan3", "zhai4">>,
                                  <<"zhong1", "duan3", "zhai4">>,
                                  <<"chang2", "zhai4">>})
            \/ ContainsThen(type, <<"zhai4", "quan4">>, <<"yi1", "ji2">>)
    THEN "low"
    ELSE IF ContainsAny(type, {<<"pian1", "zhai4">>, <<"zhai4", "quan4">>,
                               <<"F", "O", "F">>})
    THEN "medium"
    ELSE IF ContainsAny(type, {<<"pian1", "gu3", "hun4", "he2">>,
                               <<"ping2", "heng2">>,
                               <<"ling2", "huo2", "pei4", "zhi4">>})
    THEN "medium_high"
    ELSE IF ContainsAny(type, {<<"gu3", "piao4">>, <<"zhi3", "shu4">>,
                               <<"pian1", "gu3">>})
    THEN "high"
    ELSE "medium"

\* step 2 of classifyRiskTier: the tier the volatility gives
volTierOf(vol_in) ==
    LET vol == IF isFinite(vol_in) THEN vol_in[2] ELSE 0
    IN  IF vol < 500 THEN "very_low"
        ELSE IF vol < 3000 THEN "low"
        ELSE IF vol < 10000 THEN "medium"
        ELSE IF vol < 20000 THEN "medium_high"
        ELSE "high"

\* mutant of tierIndexMax: keeps the less severe tier
tierIndexMin(typeIdx, volIdx) == Min(typeIdx, volIdx)

\* Math.max of the two indexes
tierIndexMax(typeIdx, volIdx) == Max(typeIdx, volIdx)

classifyRiskTier(type, vol_in) ==
    LET typeIdx == indexOf(tierOrder, typeTierOf(type))
        volIdx == indexOf(tierOrder, volTierOf(vol_in))
    IN  tierOrder[tierIndexMax(typeIdx, volIdx)]

TIER_BENCHMARKS ==
    [very_low    |-> [sharpeBenchmark |-> 1000, returnBenchmark |-> 2500,
                      drawdownBenchmark |-> 100],
     low         |-> [sharpeBenchmark |-> 2000, returnBenchmark |-> 6000,
                      drawdownBenchmark |-> 1000],
     medium      |-> [sharpeBenchmark |-> 1500, returnBenchmark |-> 15000,
                      drawdownBenchmark |-> 5000],
     medium_high |-> [sharpeBenchmark |-> 1200, returnBenchmark |-> 25000,
                      drawdownBenchmark |-> 15000],
     high        |-> [sharpeBenchmark |-> 1000, returnBenchmark |-> 35000,
                      drawdownBenchmark |-> 20000]]

-----------------------------------------------------------------------------
(* Benchmark tables per category, in thousandths *)

Bm(full, high, mid, low) == [full |-> full, high |-> high, mid |-> mid, low |-> low]

RETURN_YEAR1_BENCHMARKS ==
    [bond     |-> Bm(8000, 5000, 3000, 0),
     balanced |-> Bm(20000, 12000, 6000, 0),
     equity   |-> Bm(30000, 20000, 10000, 0)]

RETURN_YEAR3_BENCHMARKS ==
    [bond     |-> Bm(20000, 12000, 6000, 0),
     balanced |-> Bm(50000, 30000, 15000, 0),
     equity   |-> Bm(80000, 50000, 30000, 0)]

SHARPE_BENCHMARKS ==
    [bond     |-> Bm(1500, 1000, 700, 300),
     balanced |-> Bm(2000, 1500, 1000, 500),
     equity   |-> Bm(2000, 1500, 1000, 500)]

DRAWDOWN_BENCHMARKS ==
    [bond     |-> Bm(3000, 5000, 10000, 15000),
     balanced |-> Bm(10000, 20000, 30000, 40000),
     equity   |-> Bm(15000, 25000, 35000, 45000)]

SORTINO_BENCHMARKS ==
    [bond     |-> Bm(2000, 1500, 1000, 500),
     balanced |-> Bm(2500, 2000, 1500, 1000),
     equity   |-> Bm(2500, 2000, 1500, 1000)]

VOLATILITY_BENCHMARKS ==
    [bond     |-> Bm(3000, 5000, 8000, 12000),
     balanced |-> Bm(10000, 15000, 20000, 25000),
     equity   |-> Bm(15000, 20000, 25000, 30000)]

CALMAR_BENCHMARKS ==
    [bond     |-> Bm(2000, 1500, 1000, 500),
     balanced |-> Bm(3000, 2000, 1000, 500),
     equity   |-> Bm(3000, 2000, 1000, 500)]

-----------------------------------------------------------------------------
(* Weights and percentages *)

SCORE_WEIGHT ==
    [SHARPE |-> 12, SORTINO |-> 5, RETURN_YEAR1 |-> 8, RETURN_YEAR3 |-> 10,
     CALMAR |-> 10, MAX_DRAWDOWN |-> 18, VOLATILITY |-> 7,
     MORNINGSTAR |-> 8, FUND_SIZE |-> 8, MANAGER_YEARS |-> 8, FEE_RATE |-> 6]

\* thresholds in thousandths of a percent, penalties in points
MOMENTUM_PENALTY ==
    [HIGH |-> [threshold |-> 50000, penalty |-> 5],
     MID  |-> [threshold |-> 30000, penalty |-> 3]]

PERIOD_WEIGHT == [YEAR1 |-> Rat(4, 10), YEAR3 |-> Rat(3, 10), ALL |-> Rat(3, 10)]

SCORE_TIER ==
    [FULL |-> Rat(1, 1), HIGH |-> Rat(80, 100), MID_HIGHER |-> Rat(60, 100),
     MID_LOWER |-> Rat(53, 100), LOW |-> Rat(33, 100), MIN |-> Rat(20, 100),
     FLOOR |-> Rat(13, 100)]

-----------------------------------------------------------------------------
(* Generic scoring functions *)

\* NaN/Infinity give the fallback 0; the result is in thousandths
safeNum(value) == IF isFinite(value) THEN value[2] ELSE 0

\* b.low || 1
lowOrOne(low) == IF low = 0 THEN 1000 ELSE low

\* mutant of scoreHigherBetter: the taper below low is not floored at 0
scoreHigherBetterUnfloored(value, b, maxScore) ==
    LET v == safeNum(value)
    IN  IF v >= b.full THEN maxScore
        ELSE IF v >= b.high THEN RMul(maxScore, SCORE_TIER.HIGH)
        ELSE IF v >= b.mid THEN RMul(maxScore, SCORE_TIER.MID_HIGHER)
        ELSE IF v >= b.low THEN RMul(maxScore, SCORE_TIER.LOW)
        ELSE RMul(RMul(maxScore, SCORE_TIER.MIN), Rat(v, lowOrOne(b.low)))

scoreHigherBetter(value, b, maxScore) ==
    LET v == safeNum(value)
    IN  IF v >= b.full THEN maxScore
        ELSE IF v >= b.high THEN RMul(maxScore, SCORE_TIER.HIGH)
        ELSE IF v >= b.mid THEN RMul(maxScore, SCORE_TIER.MID_HIGHER)
        ELSE IF v >= b.low THEN RMul(maxScore, SCORE_TIER.LOW)
        ELSE RMax(RInt(0), RMul(RMul(maxScore, SCORE_TIER.MIN),
                                Rat(v, lowOrOne(b.low))))

\* mutant of scoreLowerBetter: no floor above low
scoreLowerBetterUnfloored(value, b, maxScore) ==
    LET v == safeNum(value)
    IN  IF v <= b.full THEN maxScore
        ELSE IF v <= b.high THEN RMul(maxScore, SCORE_TIER.HIGH)
        ELSE IF v <= b.mid THEN RMul(maxScore, SCORE_TIER.MID_LOWER)
        ELSE IF v <= b.low THEN RMul(maxScore, SCORE_TIER.LOW)
        ELSE RMul(RMul(maxScore, SCORE_TIER.LOW), Rat(b.low, IF v = 0 THEN 1000 ELSE v))

scoreLowerBetter(value, b, maxScore) ==
    LET v == safeNum(value)
    IN  IF v <= b.full THEN maxScore
        ELSE IF v <= b.high THEN RMul(maxScore, SCORE_TIER.HIGH)
        ELSE IF v <= b.mid THEN RMul(maxScore, SCORE_TIER.MID_LOWER)
        ELSE IF v <= b.low THEN RMul(maxScore, SCORE_TIER.LOW)
        ELSE RMax(RMul(maxScore, SCORE_TIER.FLOOR),
                  RMul(RMul(maxScore, SCORE_TIER.LOW),
                       Rat(b.low, IF v = 0 THEN 1000 ELSE v)))

-----------------------------------------------------------------------------
(* Scores that do not depend on the fund category *)

\* Math.min(maxScore, Math.max(0, rating * (maxScore / 5))); scoreFund calls it
\* only when rating > 0, so rating is a positive finite number or +Infinity
scoreMorningstar(rating, maxScore) ==
    IF rating[1] = "inf" THEN maxScore
    ELSE RMin(maxScore, RMax(RInt(0), RMul(Milli(rating[2]), RDiv(maxScore, RInt(5)))))

scoreFundSize(size, maxScore) ==
    IF JsGe(size, 2000) /\ JsLe(size, 100000) THEN maxScore
    ELSE IF JsGt(size, 100000) /\ JsLe(size, 300000) THEN RMul(maxScore, Rat(8, 10))
    ELSE IF JsGe(size, 1000) /\ JsLt(size, 2000) THEN RMul(maxScore, Rat(6, 10))
    ELSE IF JsGt(size, 300000) THEN RMul(maxScore, Rat(4, 10))
    ELSE RMul(maxScore, Rat(2, 10))

scoreManagerYears(years, maxScore) ==
    IF JsGe(years, 7000) THEN maxScore
    ELSE IF JsGe(years, 5000) THEN RMul(maxScore, Rat(8, 10))
    ELSE IF JsGe(years, 3000) THEN RMul(maxScore, Rat(6, 10))
    ELSE IF JsGe(years, 1000) THEN RMul(maxScore, Rat(4, 10))
    ELSE RMul(maxScore, Rat(2, 10))

scoreFeeRate(rate, maxScore) ==
    IF JsLe(rate, 800) THEN maxScore
    ELSE IF JsLe(rate, 1200) THEN RMul(maxScore, Rat(83, 100))
    ELSE IF JsLe(rate, 1500) THEN RMul(maxScore, Rat(67, 100))
    ELSE IF JsLe(rate, 2000) THEN RMul(maxScore, Rat(33, 100))
    ELSE RMul(maxScore, Rat(17, 100))

-----------------------------------------------------------------------------
(* Main scoring function *)

\* Math.round(n * 10) / 10, the result counted in tenths; Math.round rounds
\* half up
round1(n) == (20 * n[1] + n[2]) \div (2 * n[2])

\* a score counted in tenths as a rational
Tenths(t) == Rat(t, 10)

\* the three periods with their weights, a missing period being <<>>
periodWeightsOf(rbp) ==
    << [metrics |-> rbp.year1, weight |-> PERIOD_WEIGHT.YEAR1],
       [metrics |-> rbp.year3, weight |-> PERIOD_WEIGHT.YEAR3],
       [metrics |-> <<rbp.all>>, weight |-> PERIOD_WEIGHT.ALL] >>

\* the callback m => scoreHigherBetter(m[field], b, maxScore) applied to the
\* periods the loop of weightedPeriodScore does not skip
higherBetterByPeriod(periods, field, b, maxScore) ==
    [i \in 1..Len(periods) |->
        IF periods[i].metrics = <<>> THEN RInt(0)
        ELSE scoreHigherBetter(periods[i].metrics[1][field], b, maxScore)]

\* the callback m => scoreLowerBetter(m[field], b, maxScore), likewise
lowerBetterByPeriod(periods, field, b, maxScore) ==
    [i \in 1..Len(periods) |->
        IF periods[i].metrics = <<>> THEN RInt(0)
        ELSE scoreLowerBetter(periods[i].metrics[1][field], b, maxScore)]

\* mutant of weightedPeriodScore: the weights of the present periods are not
\* renormalized
weightedPeriodScoreNominal(periods, scores) ==
    LET acc[i \in 0..Len(periods)] ==
            IF i = 0 THEN RInt(0)
            ELSE IF periods[i].metrics = <<>> THEN acc[i - 1]
            ELSE RAdd(acc[i - 1], RMul(scores[i], periods[i].weight))
    IN  acc[Len(periods)]

\* scores[i] is scoreFn(periods[i].metrics) for the periods that are present
weightedPeriodScore(periods, scores) ==
    LET acc[i \in 0..Len(periods)] ==
            IF i = 0 THEN [totalWeight |-> RInt(0), totalScore |-> RInt(0)]
            ELSE IF periods[i].metrics = <<>> THEN acc[i - 1]
            ELSE [totalWeight |-> RAdd(acc[i - 1].totalWeight, periods[i].weight),
                  totalScore  |-> RAdd(acc[i - 1].totalScore,
                                       RMul(scores[i], periods[i].weight))]
        end == acc[Len(periods)]
    IN  IF end.totalWeight[1] > 0 THEN RDiv(end.totalScore, end.totalWeight)
        ELSE RInt(0)

\* m.morningstarRating > 0
hasMorningstarOf(m) == JsGt(m.morningstarRating, 0)

\* mutant of scaleOf: the rating's weight taken as 5, as the stale comment
\* beside totalWithoutMs has it
scaleOfStaleWeight(hasMorningstar) ==
    IF hasMorningstar THEN RInt(1) ELSE Rat(100, 95)

\* hasMorningstar ? 1 : 100 / (100 - SCORE_WEIGHT.MORNINGSTAR)
scaleOf(hasMorningstar) ==
    IF hasMorningstar THEN RInt(1) ELSE Rat(100, 100 - SCORE_WEIGHT.MORNINGSTAR)

\* Math.round(base * scale * 10) / 10, in tenths
scaledMax(base, scale) == round1(RMul(RInt(base), scale))

\* the for loop that rounds every item's score
roundDetails(details) ==
    [i \in 1..Len(details) |-> [details[i] EXCEPT !.score = round1(details[i].score)]]

RECURSIVE SumScores(_)
\* details.reduce((sum, d) => sum + d.score, 0)
SumScores(details) ==
    IF details = <<>> THEN 0
    ELSE details[1].score + SumScores(Tail(details))

\* Math.min(100, tierScore), in tenths
capTierScore(tierScore) == Min(1000, tierScore)

\* mutant of tierTotalOf: the momentum penalty is deducted from the tier total too
tierTotalPenalized(data, tierDetails) ==
    LET y1Return == safeNum(data.performance.returnYear1)
        penalty == IF y1Return > MOMENTUM_PENALTY.HIGH.threshold
                   THEN MOMENTUM_PENALTY.HIGH.penalty
                   ELSE IF y1Return > MOMENTUM_PENALTY.MID.threshold
                   THEN MOMENTUM_PENALTY.MID.penalty
                   ELSE 0
    IN  round1(Tenths(Max(0, SumScores(tierDetails) - 10 * penalty)))

\* the tier view's total before the cap: the rounded sum of its item scores and
\* nothing else of the record
tierTotalOf(data, tierDetails) == round1(Tenths(SumScores(tierDetails)))

scoreFundByTier(data, tier) ==
    LET p == data.performance
        m == data.meta
        tb == TIER_BENCHMARKS[tier]
        periodWeights == periodWeightsOf(p.riskByPeriod)
        sharpeBm == Bm(tb.sharpeBenchmark, (tb.sharpeBenchmark * 7) \div 10,
                       (tb.sharpeBenchmark * 4) \div 10,
                       (tb.sharpeBenchmark * 15) \div 100)
        returnBm == Bm(tb.returnBenchmark, (tb.returnBenchmark * 7) \div 10,
                       (tb.returnBenchmark * 4) \div 10, 0)
        drawdownBm == Bm(tb.drawdownBenchmark, tb.drawdownBenchmark * 2,
                         tb.drawdownBenchmark * 4, tb.drawdownBenchmark * 6)
        W == SCORE_WEIGHT
        sharpeVal == weightedPeriodScore(periodWeights,
            higherBetterByPeriod(periodWeights, "sharpeRatio", sharpeBm, RInt(W.SHARPE)))
        sortinoVal == weightedPeriodScore(periodWeights,
            higherBetterByPeriod(periodWeights, "sortinoRatio", sharpeBm, RInt(W.SORTINO)))
        y1Val == scoreHigherBetter(p.returnYear1, returnBm, RInt(W.RETURN_YEAR1))
        y3Val == scoreHigherBetter(p.returnYear3,
            Bm(returnBm.full * 3, returnBm.high * 3, returnBm.mid * 3, 0),
            RInt(W.RETURN_YEAR3))
        calmarVal == weightedPeriodScore(periodWeights,
            higherBetterByPeriod(periodWeights, "calmarRatio", sharpeBm, RInt(W.CALMAR)))
        ddVal == weightedPeriodScore(periodWeights,
            lowerBetterByPeriod(periodWeights, "maxDrawdown", drawdownBm, RInt(W.MAX_DRAWDOWN)))
        volVal == weightedPeriodScore(periodWeights,
            lowerBetterByPeriod(periodWeights, "volatility", drawdownBm, RInt(W.VOLATILITY)))
        hasMorningstar == hasMorningstarOf(m)
        scale == scaleOf(hasMorningstar)
        msVal == IF hasMorningstar
                 THEN scoreMorningstar(m.morningstarRating, RInt(W.MORNINGSTAR))
                 ELSE RInt(0)
        sizeVal == scoreFundSize(m.fundSize, RMul(RInt(W.FUND_SIZE), scale))
        mgrVal == scoreManagerYears(m.managerYears, RMul(RInt(W.MANAGER_YEARS), scale))
        feeVal == scoreFeeRate(m.totalFeeRate, RMul(RInt(W.FEE_RATE), scale))
        tierDetails == roundDetails(
            << [item |-> "sharpeRatio", score |-> sharpeVal, maxScore |-> 10 * W.SHARPE],
               [item |-> "sortinoRatio", score |-> sortinoVal, maxScore |-> 10 * W.SORTINO],
               [item |-> "returnYear1", score |-> y1Val, maxScore |-> 10 * W.RETURN_YEAR1],
               [item |-> "returnYear3", score |-> y3Val, maxScore |-> 10 * W.RETURN_YEAR3],
               [item |-> "calmarRatio", score |-> calmarVal, maxScore |-> 10 * W.CALMAR],
               [item |-> "maxDrawdown", score |-> ddVal, maxScore |-> 10 * W.MAX_DRAWDOWN],
               [item |-> "volatility", score |-> volVal, maxScore |-> 10 * W.VOLATILITY] >>
            \o (IF hasMorningstar
                THEN << [item |-> "morningstar", score |-> msVal,
                         maxScore |-> 10 * W.MORNINGSTAR] >>
                ELSE << >>)
            \o << [item |-> "fundSize", score |-> sizeVal,
                   maxScore |-> scaledMax(W.FUND_SIZE, scale)],
                  [item |-> "managerYears", score |-> mgrVal,
                   maxScore |-> scaledMax(W.MANAGER_YEARS, scale)],
                  [item |-> "feeRate", score |-> feeVal,
                   maxScore |-> scaledMax(W.FEE_RATE, scale)] >>)
        tierScore == tierTotalOf(data, tierDetails)
    IN  [tierScore |-> capTierScore(tierScore), tierDetails |-> tierDetails]

\* mutant of momentumPenaltyOf: the thresholds are inclusive
momentumPenaltyInclusive(returnYear1) ==
    LET y1Return == safeNum(returnYear1)
    IN  IF y1Return >= MOMENTUM_PENALTY.HIGH.threshold THEN MOMENTUM_PENALTY.HIGH.penalty
        ELSE IF y1Return >= MOMENTUM_PENALTY.MID.threshold THEN MOMENTUM_PENALTY.MID.penalty
        ELSE 0

\* the momentum-reversal penalty for a trailing-1y return, in points
momentumPenaltyOf(returnYear1) ==
    LET y1Return == safeNum(returnYear1)
    IN  IF y1Return > MOMENTUM_PENALTY.HIGH.threshold THEN MOMENTUM_PENALTY.HIGH.penalty
        ELSE IF y1Return > MOMENTUM_PENALTY.MID.threshold THEN MOMENTUM_PENALTY.MID.penalty
        ELSE 0

\* mutant of applyMomentumPenalty: the penalty is reported but not deducted
applyNoPenalty(marketScore, momentumPenalty) == round1(Tenths(Max(0, marketScore)))

\* round1(Math.max(0, marketScore - momentumPenalty)), in tenths
applyMomentumPenalty(marketScore, momentumPenalty) ==
    round1(Tenths(Max(0, marketScore - 10 * momentumPenalty)))

scoreFund(data) ==
    LET p == data.performance
        m == data.meta
        cat == classifyFund(data.basic.type)
        rbp == p.riskByPeriod
        hasMorningstar == hasMorningstarOf(m)
        scale == scaleOf(hasMorningstar)
        periodWeights == periodWeightsOf(rbp)
        W == SCORE_WEIGHT
        sharpeScoreVal == weightedPeriodScore(periodWeights,
            higherBetterByPeriod(periodWeights, "sharpeRatio", SHARPE_BENCHMARKS[cat],
                                 RMul(RInt(W.SHARPE), scale)))
        sortinoScoreVal == weightedPeriodScore(periodWeights,
            higherBetterByPeriod(periodWeights, "sortinoRatio", SORTINO_BENCHMARKS[cat],
                                 RMul(RInt(W.SORTINO), scale)))
        year1Score == scoreHigherBetter(p.returnYear1, RETURN_YEAR1_BENCHMARKS[cat],
                                        RMul(RInt(W.RETURN_YEAR1), scale))
        year3Score == scoreHigherBetter(p.returnYear3, RETURN_YEAR3_BENCHMARKS[cat],
                                        RMul(RInt(W.RETURN_YEAR3), scale))
        calmarScoreVal == weightedPeriodScore(periodWeights,
            higherBetterByPeriod(periodWeights, "calmarRatio", CALMAR_BENCHMARKS[cat],
                                 RMul(RInt(W.CALMAR), scale)))
        drawdownScoreVal == weightedPeriodScore(periodWeights,
            lowerBetterByPeriod(periodWeights, "maxDrawdown", DRAWDOWN_BENCHMARKS[cat],
                                RMul(RInt(W.MAX_DRAWDOWN), scale)))
        volScoreVal == weightedPeriodScore(periodWeights,
            lowerBetterByPeriod(periodWeights, "volatility", VOLATILITY_BENCHMARKS[cat],
                                RMul(RInt(W.VOLATILITY), scale)))
        morningstarScoreVal ==
            IF hasMorningstar
            THEN scoreMorningstar(m.morningstarRating, RInt(W.MORNINGSTAR))
            ELSE RInt(0)
        sizeScoreVal == scoreFundSize(m.fundSize, RMul(RInt(W.FUND_SIZE), scale))
        mgrScoreVal == scoreManagerYears(m.managerYears, RMul(RInt(W.MANAGER_YEARS), scale))
        feeScoreVal == scoreFeeRate(m.totalFeeRate, RMul(RInt(W.FEE_RATE), scale))
        details == roundDetails(
            << [item |-> "sharpeRatio", score |-> sharpeScoreVal,
                maxScore |-> scaledMax(W.SHARPE, scale)],
               [item |-> "sortinoRatio", score |-> sortinoScoreVal,
                maxScore |-> scaledMax(W.SORTINO, scale)],
               [item |-> "returnYear1", score |-> year1Score,
                maxScore |-> scaledMax(W.RETURN_YEAR1, scale)],
               [item |-> "returnYear3", score |-> year3Score,
                maxScore |-> scaledMax(W.RETURN_YEAR3, scale)],
               [item |-> "calmarRatio", score |-> calmarScoreVal,
                maxScore |-> scaledMax(W.CALMAR, scale)],
               [item |-> "maxDrawdown", score |-> drawdownScoreVal,
                maxScore |-> scaledMax(W.MAX_DRAWDOWN, scale)],
               [item |-> "volatility", score |-> volScoreVal,
                maxScore |-> scaledMax(W.VOLATILITY, scale)] >>
            \o (IF hasMorningstar
                THEN << [item |-> "morningstar", score |-> morningstarScoreVal,
                         maxScore |-> 10 * W.MORNINGSTAR] >>
                ELSE << >>)
            \o << [item |-> "fundSize", score |-> sizeScoreVal,
                   maxScore |-> scaledMax(W.FUND_SIZE, scale)],
                  [item |-> "managerYears", score |-> mgrScoreVal,
                   maxScore |-> scaledMax(W.MANAGER_YEARS, scale)],
                  [item |-> "feeRate", score |-> feeScoreVal,
                   maxScore |-> scaledMax(W.FEE_RATE, scale)] >>)
        returnScore == round1(Tenths(
            round1(sharpeScoreVal) + round1(sortinoScoreVal)
            + round1(year1Score) + round1(year3Score)))
        riskScore == round1(Tenths(
            round1(calmarScoreVal) + round1(drawdownScoreVal) + round1(volScoreVal)))
        overallScore == round1(Tenths(
            round1(morningstarScoreVal) + round1(sizeScoreVal)
            + round1(mgrScoreVal) + round1(feeScoreVal)))
        marketScore0 == round1(Tenths(returnScore + riskScore + overallScore))
        momentumPenalty == momentumPenaltyOf(p.returnYear1)
        marketScore == applyMomentumPenalty(marketScore0, momentumPenalty)
        tier == classifyRiskTier(data.basic.type, rbp.all.volatility)
        byTier == scoreFundByTier(data, tier)
    IN  [returnScore |-> returnScore,
         riskScore |-> riskScore,
         overallScore |-> overallScore,
         totalScore |-> marketScore,
         momentumPenalty |-> momentumPenalty,
         details |-> details,
         riskTier |-> tier,
         tierScore |-> byTier.tierScore,
         marketScore |-> marketScore,
         tierDetails |-> byTier.tierDetails]

-----------------------------------------------------------------------------
(* Inputs *)

\* highest star rating a record carries
MaxRating == 5

\* fund type texts: gu3 piao4 xing2 is the stock type, zhai4 quan4 xing2 the bond
\* type, hun4 he2 xing2 - ping2 heng2 the balanced mixed type, and so on
FundTypes ==
    { <<"gu3", "piao4", "xing2">>,
      <<"zhai4", "quan4", "xing2">>,
      <<"chun2", "zhai4", "xing2">>,
      <<"duan3", "zhai4", "xing2">>,
      <<"chao1", "duan3", "zhai4">>,
      <<"zhai4", "quan4", "xing2", "yi1", "ji2">>,
      <<"huo4", "bi4", "xing2">>,
      <<"zhi3", "shu4", "xing2">>,
      <<"hun4", "he2", "xing2", "-", "ping2", "heng2">>,
      <<"hun4", "he2", "xing2", "-", "pian1", "gu3">>,
      <<"pian1", "gu3", "hun4", "he2", "xing2">>,
      <<"pian1", "zhai4", "hun4", "he2", "xing2">>,
      <<"ling2", "huo2", "pei4", "zhi4">>,
      <<"F", "O", "F">>,
      <<"Q", "D", "I", "I", "-", "hun4", "he2", "xing2">>,
      <<"qi2", "ta1", "lei4", "xing2">> }

\* one type text of each category
CategoryTypes ==
    { <<"gu3", "piao4", "xing2">>,
      <<"zhai4", "quan4", "xing2">>,
      <<"hun4", "he2", "xing2", "-", "ping2", "heng2">> }

NonFinite == {NaN, PosInf, NegInf}

Metrics(sharpe, drawdown, vol, sortino, calmar) ==
    [sharpeRatio |-> sharpe, maxDrawdown |-> drawdown, volatility |-> vol,
     sortinoRatio |-> sortino, calmarRatio |-> calmar]

MetricsTypical == Metrics(Fin(1000), Fin(10000), Fin(15000), Fin(1500), Fin(1000))
MetricsBest == Metrics(Fin(100000), Fin(0), Fin(0), Fin(100000), Fin(100000))
MetricsPoor == Metrics(Fin(200), Fin(50000), Fin(35000), Fin(400), Fin(-500))
MetricsZero == Metrics(Fin(0), Fin(0), Fin(0), Fin(0), Fin(0))
MetricsNaN == Metrics(NaN, NaN, NaN, NaN, NaN)
MetricsInf == Metrics(PosInf, PosInf, NegInf, NegInf, NaN)

MakeFund(type, returnYear1, returnYear3, year1, year3, all, rating, size, years, fee) ==
    [basic |-> [type |-> type],
     performance |-> [returnYear1 |-> returnYear1, returnYear3 |-> returnYear3,
                      riskByPeriod |-> [year1 |-> year1, year3 |-> year3, all |-> all]],
     meta |-> [morningstarRating |-> rating, fundSize |-> size,
               managerYears |-> years, totalFeeRate |-> fee]]

\* records that vary the period breakdown and the trailing-1y return
PerformanceInputs ==
    { MakeFund(type, returnYear1, Fin(40000), year1, year3, all, rating,
               Fin(50000), Fin(5000), Fin(1200)) :
        type \in CategoryTypes,
        returnYear1 \in {Fin(15000), Fin(35000), Fin(55000), Fin(-9999000), NaN},
        year1 \in {<<>>, <<MetricsBest>>, <<MetricsPoor>>, <<MetricsNaN>>},
        year3 \in {<<>>, <<MetricsTypical>>, <<MetricsInf>>, <<MetricsZero>>},
        all \in {MetricsTypical, MetricsBest, MetricsNaN, MetricsZero},
        rating \in {Fin(0), Fin(4000)} }

\* records that vary the two trailing returns and the type text
ReturnInputs ==
    { MakeFund(type, returnYear1, returnYear3, <<MetricsTypical>>, <<MetricsTypical>>,
               MetricsTypical, rating, Fin(50000), Fin(5000), Fin(1200)) :
        type \in FundTypes,
        returnYear1 \in {Fin(0), Fin(20000), Fin(30000), Fin(30010), Fin(50000),
                         Fin(50010), Fin(9999000), Fin(-20000)} \cup NonFinite,
        returnYear3 \in {Fin(40000), Fin(9999000), Fin(-50000), Fin(0)} \cup NonFinite,
        rating \in {Fin(0), Fin(5000)} }

\* records that vary the meta fields
MetaInputs ==
    { MakeFund(<<"gu3", "piao4", "xing2">>, returnYear1, Fin(40000), <<MetricsBest>>,
               <<>>, MetricsBest, rating, size, years, fee) :
        returnYear1 \in {Fin(15000), Fin(55000)},
        rating \in {Fin(1000 * r) : r \in 0..MaxRating} \cup {Fin(3500), Fin(-1000)}
                   \cup NonFinite,
        size \in {Fin(0), Fin(50000), Fin(500000), NaN, PosInf},
        years \in {Fin(0), Fin(6000), NaN, PosInf},
        fee \in {Fin(0), Fin(1000), Fin(2500), NaN, NegInf} }

\* records that vary one meta field over each of its score bands
MetaBandInputs ==
    { MakeFund(<<"zhai4", "quan4", "xing2">>, Fin(15000), Fin(40000), <<>>, <<>>,
               MetricsZero, Fin(0), size, years, fee) :
        size \in {Fin(500), Fin(1500), Fin(2000), Fin(200000), NegInf},
        years \in {Fin(500), Fin(2000), Fin(4000), Fin(20000), NegInf},
        fee \in {Fin(100), Fin(1300), Fin(1800), PosInf} }

FundInputs ==
    PerformanceInputs \cup ReturnInputs \cup MetaInputs \cup MetaBandInputs

VolInputs ==
    {Fin(0), Fin(300), Fin(499), Fin(500), Fin(2990), Fin(3000), Fin(9990),
     Fin(10000), Fin(19990), Fin(20000), Fin(25000), Fin(-1000)} \cup NonFinite

-----------------------------------------------------------------------------
(* Calls of scoreFund *)

NoFund == <<>>
NoScore == <<>>

\* no backtest is under way
BacktestIdle ==
    /\ accNavData = <<>>
    /\ evalDate = 0
    /\ forwardYears = <<>>
    /\ meta = <<>>
    /\ backtest = <<>>
    /\ laterNavData = <<>>
    /\ laterBacktest = <<>>

\* no deep scoring or holdings analysis is under way
DeepIdle ==
    /\ quant = <<>>
    /\ holdings = <<>>
    /\ deepScore = <<>>
    /\ industryHHI = <<>>

\* no period risk calculation is under way
PeriodIdle ==
    /\ rawNavData = <<>>
    /\ trailingReturn = 0
    /\ riskBreakdown = <<>>

\* no risk analysis against a benchmark is under way
QuantIdle ==
    /\ fundNavs = <<>>
    /\ benchmarkData = <<>>
    /\ riskAnalysis = <<>>

\* no item scoring call is under way
ItemIdle ==
    /\ itemArgs = <<>>
    /\ itemScores = <<>>

\* no batch backtest is under way
BatchIdle ==
    /\ batchArgs = <<>>
    /\ fundIdx = 0
    /\ current = <<>>
    /\ results = <<>>
    /\ allResults = <<>>
    /\ report = <<>>

\* no request is under way
HttpIdle ==
    /\ clock = 0
    /\ lastRequestTime = 0
    /\ inFlight = <<>>
    /\ requests = <<>>

LaterIdle == ItemIdle /\ BatchIdle /\ HttpIdle /\ replay = <<>>

AnalysisIdle == DeepIdle /\ PeriodIdle /\ QuantIdle /\ LaterIdle

Init ==
    /\ fund \in FundInputs
    /\ score = NoScore
    /\ fundType = <<>>
    /\ volatility = Fin(0)
    /\ riskTier = ""
    /\ BacktestIdle
    /\ AnalysisIdle
    /\ pc = "scoreFund"

ScoreFund ==
    /\ pc = "scoreFund"
    /\ score' = scoreFund(fund)
    /\ pc' = "done"
    /\ UNCHANGED <<fund, tierVars, backtestVars, analysisVars>>

Next == ScoreFund

Spec == Init /\ [][Next]_vars

-----------------------------------------------------------------------------
(* Calls of classifyRiskTier *)

InitTier ==
    /\ fund = NoFund
    /\ score = NoScore
    /\ fundType \in FundTypes
    /\ volatility \in VolInputs
    /\ riskTier = ""
    /\ BacktestIdle
    /\ AnalysisIdle
    /\ pc = "classifyRiskTier"

ClassifyRiskTier ==
    /\ pc = "classifyRiskTier"
    /\ riskTier' = classifyRiskTier(fundType, volatility)
    /\ pc' = "done"
    /\ UNCHANGED <<scoreVars, fundType, volatility, backtestVars, analysisVars>>

NextTier == ClassifyRiskTier

SpecTier == InitTier /\ [][NextTier]_vars

-----------------------------------------------------------------------------
(* Historical metrics at a date (calcHistoricalMetrics)                    *)
(*                                                                         *)
(* A series is a sequence of points <<ts, accNav>>.  Timestamps are whole  *)
(* day numbers (the code holds milliseconds of midnights); a year is       *)
(* 365.25 days, so lengths of time are compared in quarter days.  NAVs are *)
(* integers in thousandths.  Daily returns are held in units of 1e-5.      *)
(* Every result is in thousandths, as the scorer reads it.                 *)
(* Math.sqrt is the integer square root.  Math.pow with a fractional       *)
(* exponent has no integer counterpart: the annualised return is its       *)
(* first-order term, total return / years, which reads the same points and *)
(* has the same sign and the same zero.                                    *)

\* 365.25 days, in quarter days
QuarterDaysPerYear == 1461

\* a daily return of 1.0, in the unit daily returns are held in
ReturnUnit == 100000

\* riskFreeDaily = 0.02 / 252 and the annual 0.02, in units of 1e-5
riskFreeDaily == 8
riskFreeAnnual == 2000

\* trading days per year, the square of the annualisation factor
TradingDays == 252

\* Math.sqrt(252) * 100
Sqrt252x100 == 1587

\* Math.round(n / d) for d > 0
RoundDiv(n, d) == (2 * n + d) \div (2 * d)

RECURSIVE SqrtIter(_, _)
SqrtIter(n, x) ==
    LET y == (x + n \div x) \div 2
    IN  IF y >= x THEN x ELSE SqrtIter(n, y)

\* Math.sqrt, rounded down
ISqrt(n) == IF n < 2 THEN n ELSE SqrtIter(n, n)

RECURSIVE reduceSum(_)
\* s.reduce((a, b) => a + b, 0), the sequence summed by halves
reduceSum(s) ==
    IF Len(s) = 0 THEN 0
    ELSE IF Len(s) = 1 THEN s[1]
    ELSE reduceSum(SubSeq(s, 1, Len(s) \div 2))
             + reduceSum(SubSeq(s, Len(s) \div 2 + 1, Len(s)))

\* the return of every point i >= 2 whose predecessor prev is > 0:
\* (navData[i][1] - prev) / prev
calcDailyReturns(navData) ==
    LET kept == SelectSeq([i \in 1..(Len(navData) - 1) |-> i + 1],
                          LAMBDA i : navData[i - 1][2] > 0)
    IN  [k \in 1..Len(kept) |->
            ((navData[kept[k]][2] - navData[kept[k] - 1][2]) * ReturnUnit)
                \div navData[kept[k] - 1][2]]

\* mutant of calcMaxDrawdown: the decline is measured from the first value, the
\* peak never moving
calcMaxDrawdownFromStart(navData) ==
    IF Len(navData) < 2 THEN 0
    ELSE LET first == navData[1][2]
             lowest == CHOOSE v \in {navData[i][2] : i \in 1..Len(navData)} :
                           \A i \in 1..Len(navData) : v <= navData[i][2]
         IN  10 * RoundDiv((first - lowest) * 10000, first)

\* peakAt(j) is peak after the loop has visited point j, dd the set of the
\* values dd takes, maxDd the largest of them, a rational
calcMaxDrawdown(navData) ==
    IF Len(navData) < 2 THEN 0
    ELSE LET peakAt(j) == CHOOSE v \in {navData[i][2] : i \in 1..j} :
                              \A i \in 1..j : navData[i][2] <= v
             dd == {Rat(peakAt(j) - navData[j][2], peakAt(j)) : j \in 1..Len(navData)}
             maxDd == CHOOSE m \in dd : \A d \in dd : RLe(d, m)
         IN  10 * RoundDiv(maxDd[1] * 10000, maxDd[2])

\* Math.sqrt(variance * 252) and Math.sqrt(variance) * Math.sqrt(252): the
\* product is formed where it fits 32 bits, and on a hundredth of the
\* variance above that
annualizedRoot(variance) ==
    IF variance <= 2147483647 \div TradingDays THEN ISqrt(TradingDays * variance)
    ELSE 10 * ISqrt(TradingDays * (variance \div 100))

meanOf(returns) == reduceSum(returns) \div Len(returns)

varianceOf(returns) ==
    LET mean == meanOf(returns)
    IN  reduceSum([i \in 1..Len(returns) |-> (returns[i] - mean) * (returns[i] - mean)])
            \div Len(returns)

calcVolatility(navData) ==
    IF Len(navData) < 10 THEN 0
    ELSE LET returns == calcDailyReturns(navData)
         IN  IF Len(returns) < 2 THEN 0
             ELSE 10 * RoundDiv(annualizedRoot(varianceOf(returns)), 10)

calcSharpeRatio(navData) ==
    IF Len(navData) < 30 THEN 0
    ELSE LET returns == calcDailyReturns(navData)
         IN  IF Len(returns) < 2 THEN 0
             ELSE LET stdDev == ISqrt(varianceOf(returns))
                  IN  IF stdDev = 0 THEN 0
                      ELSE 10 * RoundDiv((meanOf(returns) - riskFreeDaily) * Sqrt252x100,
                                         stdDev)

\* mutant of calcSortinoRatio: without a downside return the ratio is left at 0
calcSortinoRatioNoCeiling(navData, annualReturn) ==
    IF Len(navData) < 10 THEN 0
    ELSE LET returns == calcDailyReturns(navData)
             below == SelectSeq(returns, LAMBDA r : r < riskFreeDaily)
             downsideReturns ==
                 [i \in 1..Len(below) |->
                     (below[i] - riskFreeDaily) * (below[i] - riskFreeDaily)]
         IN  IF Len(downsideReturns) = 0 THEN 0
             ELSE LET annualizedDownside ==
                          annualizedRoot(reduceSum(downsideReturns)
                                             \div Len(downsideReturns))
                  IN  IF annualizedDownside = 0 THEN 0
                      ELSE 10 * RoundDiv((annualReturn - riskFreeAnnual) * 100,
                                         annualizedDownside)

calcSortinoRatio(navData, annualReturn) ==
    IF Len(navData) < 10 THEN 0
    ELSE LET returns == calcDailyReturns(navData)
             below == SelectSeq(returns, LAMBDA r : r < riskFreeDaily)
             downsideReturns ==
                 [i \in 1..Len(below) |->
                     (below[i] - riskFreeDaily) * (below[i] - riskFreeDaily)]
         IN  IF Len(downsideReturns) = 0 THEN 3000
             ELSE LET annualizedDownside ==
                          annualizedRoot(reduceSum(downsideReturns)
                                             \div Len(downsideReturns))
                  IN  IF annualizedDownside = 0 THEN 3000
                      ELSE 10 * RoundDiv((annualReturn - riskFreeAnnual) * 100,
                                         annualizedDownside)

\* null is <<>>, a window is <<sliced>>
sliceNavWindow(navData, endTs, windowYears) ==
    LET sliced == SelectSeq(navData, LAMBDA p :
                      /\ 4 * p[1] >= 4 * endTs - windowYears * QuarterDaysPerYear
                      /\ p[1] <= endTs)
    IN  IF Len(sliced) < 10 THEN <<>>
        ELSE IF 40 * (sliced[Len(sliced)][1] - sliced[1][1])
                    < windowYears * QuarterDaysPerYear * 8
             THEN <<>>
             ELSE <<sliced>>

calcReturn(navData) ==
    IF Len(navData) < 2 THEN 0
    ELSE LET start == navData[1][2]
             end == navData[Len(navData)][2]
         IN  IF start <= 0 THEN 0
             ELSE 10 * RoundDiv((end - start) * 10000, start)

\* (Math.pow(endNav / startNav, 1 / years) - 1) * 100 to first order, over a
\* span of days > 0
powAnnualized(startNav, endNav, days) ==
    ((((endNav - startNav) * ReturnUnit) \div startNav) * QuarterDaysPerYear)
        \div (4 * days)

calcAnnualizedReturn(navData) ==
    IF Len(navData) < 2 THEN 0
    ELSE LET startNav == navData[1][2]
             endNav == navData[Len(navData)][2]
             days == navData[Len(navData)][1] - navData[1][1]
         IN  IF startNav <= 0 THEN 0
             ELSE IF days <= 0 THEN 0
             ELSE powAnnualized(startNav, endNav, days)

calcCalmarRatio(annualReturn, maxDrawdown) ==
    IF maxDrawdown = 0 THEN 0
    ELSE 10 * RoundDiv(annualReturn * 100, Abs(maxDrawdown))

\* navData is <<>> (null) or <<window>>; the result is <<>> or <<metrics>>
calcPeriodRisk(navData, annualReturn) ==
    IF navData = <<>> \/ Len(navData[1]) < 10 THEN <<>>
    ELSE LET maxDrawdown == calcMaxDrawdown(navData[1])
             annualizedReturn == calcAnnualizedReturn(navData[1])
         IN  <<[sharpeRatio |-> Fin(calcSharpeRatio(navData[1])),
                maxDrawdown |-> Fin(maxDrawdown),
                volatility |-> Fin(calcVolatility(navData[1])),
                sortinoRatio |-> Fin(calcSortinoRatio(navData[1], annualReturn)),
                calmarRatio |-> Fin(calcCalmarRatio(annualizedReturn, maxDrawdown))]>>

\* mutant of dataBeforeT: the points after evalTs are kept
dataWithFuture(navData, evalTs) == navData

\* accNavData.filter(([ts]) => ts <= evalTs)
dataBeforeT(navData, evalTs) == SelectSeq(navData, LAMBDA p : p[1] <= evalTs)

calcMetricsAtDate(navData, evalTs) ==
    LET before == dataBeforeT(navData, evalTs)
    IN  IF Len(before) < 10
        THEN [returnYear1 |-> Fin(0), returnYear3 |-> Fin(0), sharpeRatio |-> Fin(0),
              maxDrawdown |-> Fin(0), volatility |-> Fin(0), sortinoRatio |-> Fin(0)]
        ELSE LET nav1y == sliceNavWindow(before, evalTs, 1)
                 nav3y == sliceNavWindow(before, evalTs, 3)
                 returnYear1 == IF nav1y # <<>> THEN calcReturn(nav1y[1]) ELSE 0
                 returnYear3 == IF nav3y # <<>> THEN calcReturn(nav3y[1]) ELSE 0
             IN  [returnYear1 |-> Fin(returnYear1),
                  returnYear3 |-> Fin(returnYear3),
                  sharpeRatio |-> Fin(calcSharpeRatio(before)),
                  maxDrawdown |-> Fin(calcMaxDrawdown(before)),
                  volatility |-> Fin(calcVolatility(before)),
                  sortinoRatio |-> Fin(calcSortinoRatio(before, returnYear1))]

\* Math.round(Math.max(0, yearsFromEstablish) * 10) / 10; establishDate is
\* <<day>>, or <<>> when the text is no date and currentMeta.managerYears is used
managerYearsAt(evalTs, currentMeta) ==
    IF currentMeta.establishDate = <<>>
    THEN LET y == currentMeta.managerYears
         IN  IF y[1] = "fin" THEN Fin(100 * RoundDiv(Max(0, y[2]), 100))
             ELSE IF y[1] = "ninf" THEN Fin(0)
             ELSE y
    ELSE Fin(100 * RoundDiv(Max(0, evalTs - currentMeta.establishDate[1]) * 40,
                            QuarterDaysPerYear))

buildFundDataAtDate(metrics, navData, evalTs, currentMeta) ==
    LET before == dataBeforeT(navData, evalTs)
        nav1y == sliceNavWindow(before, evalTs, 1)
        nav3y == sliceNavWindow(before, evalTs, 3)
    IN  MakeFund(currentMeta.fundType, metrics.returnYear1, metrics.returnYear3,
                 calcPeriodRisk(nav1y, metrics.returnYear1[2]),
                 calcPeriodRisk(nav3y, metrics.returnYear3[2]),
                 Metrics(metrics.sharpeRatio, metrics.maxDrawdown, metrics.volatility,
                         metrics.sortinoRatio,
                         Fin(calcCalmarRatio(calcAnnualizedReturn(before),
                                             metrics.maxDrawdown[2]))),
                 Fin(0), currentMeta.fundSize, managerYearsAt(evalTs, currentMeta),
                 currentMeta.totalFeeRate)

\* index of the first point from index from on whose timestamp, in quarter
\* days, is at least ts4; 0 when there is none (the code's -1)
firstIndexAtOrAfter(navData, from, ts4) ==
    LET hits == {i \in from..Len(navData) : 4 * navData[i][1] >= ts4}
    IN  IF hits = {} THEN 0 ELSE CHOOSE i \in hits : \A j \in hits : i <= j

\* mutant of forwardReturnOf: a horizon the series does not reach is NaN even
\* when the last point covers 80% of it
forwardReturnOfReached(navData, evalTs, evalIdx, years) ==
    LET evalNav == navData[evalIdx][2]
        found == firstIndexAtOrAfter(navData, evalIdx,
                                     4 * evalTs + years * QuarterDaysPerYear)
    IN  IF found = 0
        THEN [period |-> years, return |-> NaN, annualized |-> NaN]
        ELSE [period |-> years,
              return |-> Fin(10 * RoundDiv((navData[found][2] - evalNav) * 10000, evalNav)),
              annualized |->
                  Fin(IF navData[found][1] - evalTs > 0
                      THEN 10 * RoundDiv(powAnnualized(evalNav, navData[found][2],
                                                       navData[found][1] - evalTs), 10)
                      ELSE 0)]

\* the entry calcForwardReturns makes for one horizon
forwardReturnOf(navData, evalTs, evalIdx, years) ==
    LET evalNav == navData[evalIdx][2]
        found == firstIndexAtOrAfter(navData, evalIdx,
                                     4 * evalTs + years * QuarterDaysPerYear)
        lastIdx == Len(navData)
        tooShort == 40 * (navData[lastIdx][1] - evalTs) < years * QuarterDaysPerYear * 8
        targetIdx == IF found = 0 THEN lastIdx ELSE found
        targetNav == navData[targetIdx][2]
        days == navData[targetIdx][1] - evalTs
    IN  IF found = 0 /\ tooShort
        THEN [period |-> years, return |-> NaN, annualized |-> NaN]
        ELSE [period |-> years,
              return |-> Fin(10 * RoundDiv((targetNav - evalNav) * 10000, evalNav)),
              annualized |->
                  Fin(IF days > 0
                      THEN 10 * RoundDiv(powAnnualized(evalNav, targetNav, days), 10)
                      ELSE 0)]

calcForwardReturns(navData, evalTs, years) ==
    LET evalIdx == firstIndexAtOrAfter(navData, 1, 4 * evalTs)
    IN  IF evalIdx = 0 THEN <<>>
        ELSE IF navData[evalIdx][2] <= 0 THEN <<>>
        ELSE [k \in 1..Len(years) |-> forwardReturnOf(navData, evalTs, evalIdx, years[k])]

\* mutant of validForwardsOf: the NaN entries are kept
validForwardsAll(forwardReturns) == forwardReturns

\* forwardReturns.filter(f => !isNaN(f.return))
validForwardsOf(forwardReturns) ==
    SelectSeq(forwardReturns, LAMBDA f : f.return[1] # "nan")

\* what backtestAtDate returns: <<>> for null, <<sample>> otherwise
sampleOf(metrics, fundScore, validForwards, evalTs, currentMeta) ==
    IF Len(validForwards) = 0 THEN <<>>
    ELSE <<[fundType |-> currentMeta.fundType,
            evalDate |-> evalTs,
            score |-> fundScore.totalScore,
            scoreDetails |-> fundScore.details,
            metrics |-> metrics,
            forwardReturns |-> validForwards]>>

\* backtestAtDate from the scoring on: its locals and, in result, what it returns
backtestScored(metrics, fundData, fundScore, forwardReturns, evalTs, currentMeta) ==
    [metrics |-> metrics,
     fundData |-> fundData,
     score |-> fundScore,
     forwardReturns |-> forwardReturns,
     result |-> sampleOf(metrics, fundScore, validForwardsOf(forwardReturns),
                         evalTs, currentMeta)]

\* backtestAtDate from the building of the FundData on
backtestWithMetrics(metrics, fundData, navData, evalTs, years, currentMeta) ==
    backtestScored(metrics, fundData, scoreFund(fundData),
                   calcForwardReturns(navData, evalTs, years), evalTs, currentMeta)

\* backtestAtDate once the metrics are computed
backtestFromMetrics(metrics, navData, evalTs, years, currentMeta) ==
    backtestWithMetrics(metrics,
                        buildFundDataAtDate(metrics, navData, evalTs, currentMeta),
                        navData, evalTs, years, currentMeta)

backtestAtDate(navData, evalTs, years, currentMeta) ==
    backtestFromMetrics(calcMetricsAtDate(navData, evalTs), navData, evalTs, years,
                        currentMeta)

-----------------------------------------------------------------------------
(* Calls of backtestAtDate *)

\* most points a series holds
MaxPoints == 50

\* day number of the first point of every series
StartDay == 18000

\* days between two points: weekly and monthly series
StepDays == {7, 30}

\* accNav of point i, in thousandths
NavAt(pattern, i) ==
    CASE pattern = "flat" -> 1000
      [] pattern = "up" -> 1000 + 4 * i
      [] pattern = "down" -> 1500 - 2 * i
      [] pattern = "zigzag" -> 1000 + 4 * i + (IF i % 2 = 0 THEN 5 ELSE 0)
      [] pattern = "crash" -> IF i <= 20 THEN 1000 + 10 * i ELSE 1200 - 4 * (i - 20)

NavPatterns == {"flat", "up", "down", "zigzag", "crash"}

SeriesOf(pattern, step, n) ==
    [i \in 1..n |-> <<StartDay + (i - 1) * step, NavAt(pattern, i)>>]

\* a series with the same points up to evalTs and another future after it:
\* higher values, lower values, or no later point at all
LaterSeries(navData, evalTs, future) ==
    CASE future = "boom" ->
            [i \in 1..Len(navData) |->
                IF navData[i][1] <= evalTs THEN navData[i]
                ELSE <<navData[i][1], navData[i][2] + 40>>]
      [] future = "bust" ->
            [i \in 1..Len(navData) |->
                IF navData[i][1] <= evalTs THEN navData[i]
                ELSE <<navData[i][1], navData[i][2] - 40>>]
      [] future = "cut" -> SelectSeq(navData, LAMBDA p : p[1] <= evalTs)

Futures == {"boom", "bust", "cut"}

EvalDates == {StartDay + d : d \in {63, 210, 330, 420, 900, 1110, 1500}}

ForwardYears == {<<>>, <<1>>, <<1, 2>>}

MetaInputsAtDate ==
    { [fundType |-> <<"gu3", "piao4", "xing2">>, establishDate |-> <<StartDay - 1000>>,
       fundSize |-> Fin(50000), managerYears |-> Fin(5000), totalFeeRate |-> Fin(1200)],
      [fundType |-> <<"zhai4", "quan4", "xing2">>, establishDate |-> <<>>,
       fundSize |-> Fin(1500), managerYears |-> Fin(2340), totalFeeRate |-> Fin(600)] }

NoBacktest == <<>>

InitBacktest ==
    /\ fund = NoFund
    /\ score = NoScore
    /\ fundType = <<>>
    /\ volatility = Fin(0)
    /\ riskTier = ""
    /\ \E pattern \in NavPatterns, step \in StepDays, n \in {8, 30, MaxPoints} :
           accNavData = SeriesOf(pattern, step, n)
    /\ evalDate \in EvalDates
    /\ forwardYears \in ForwardYears
    /\ meta \in MetaInputsAtDate
    /\ \E future \in Futures : laterNavData = LaterSeries(accNavData, evalDate, future)
    /\ backtest = NoBacktest
    /\ laterBacktest = NoBacktest
    /\ AnalysisIdle
    /\ pc = "backtestAtDate"

BacktestAtDate ==
    /\ pc = "backtestAtDate"
    /\ backtest' = backtestAtDate(accNavData, evalDate, forwardYears, meta)
    /\ pc' = "backtestLater"
    /\ UNCHANGED <<scoreVars, tierVars, analysisVars, accNavData, evalDate, forwardYears, meta,
                   laterNavData, laterBacktest>>

\* the same call on the series that differs after evalDate
BacktestLater ==
    /\ pc = "backtestLater"
    /\ laterBacktest' = backtestAtDate(laterNavData, evalDate, forwardYears, meta)
    /\ pc' = "done"
    /\ UNCHANGED <<scoreVars, tierVars, analysisVars, accNavData, evalDate, forwardYears, meta,
                   laterNavData, backtest>>

NextBacktest == BacktestAtDate \/ BacktestLater

SpecBacktest == InitBacktest /\ [][NextBacktest]_vars

-----------------------------------------------------------------------------
(* Properties of scoreFund *)

Done == pc = "done"

\* the base weight of each item of the market model
ItemWeight ==
    [sharpeRatio |-> SCORE_WEIGHT.SHARPE, sortinoRatio |-> SCORE_WEIGHT.SORTINO,
     returnYear1 |-> SCORE_WEIGHT.RETURN_YEAR1, returnYear3 |-> SCORE_WEIGHT.RETURN_YEAR3,
     calmarRatio |-> SCORE_WEIGHT.CALMAR, maxDrawdown |-> SCORE_WEIGHT.MAX_DRAWDOWN,
     volatility |-> SCORE_WEIGHT.VOLATILITY, morningstar |-> SCORE_WEIGHT.MORNINGSTAR,
     fundSize |-> SCORE_WEIGHT.FUND_SIZE, managerYears |-> SCORE_WEIGHT.MANAGER_YEARS,
     feeRate |-> SCORE_WEIGHT.FEE_RATE]

RECURSIVE SumMaxScores(_)
SumMaxScores(details) ==
    IF details = <<>> THEN 0
    ELSE details[1].maxScore + SumMaxScores(Tail(details))

RatingUnknown == fund.meta.morningstarRating = Fin(0)

NoRatingItem == \A i \in 1..Len(score.details) : score.details[i].item # "morningstar"

\* C2 as stated: with the star rating unknown (0) the rating item is omitted from
\* the market-wide list, every remaining item's max score is exactly its base
\* weight times 100/92, and the max scores sum to exactly 100.
C2_ExactRescale ==
    (Done /\ RatingUnknown) =>
        /\ NoRatingItem
        /\ \A i \in 1..Len(score.details) :
              92 * score.details[i].maxScore = 10 * 100 * ItemWeight[score.details[i].item]
        /\ SumMaxScores(score.details) = 1000

\* C2 amended: with the star rating unknown (0) the rating item is omitted from
\* the market-wide list, every remaining item's max score is its base weight
\* times 100/92 rounded to 1 decimal, and these max scores sum to exactly 100.
C2_RoundedRescale ==
    (Done /\ RatingUnknown) =>
        /\ NoRatingItem
        /\ \A i \in 1..Len(score.details) :
              score.details[i].maxScore
                  = (2 * 10 * 100 * ItemWeight[score.details[i].item] + 92) \div (2 * 92)
        /\ SumMaxScores(score.details) = 1000

C2_Witness ==
    /\ Done
    /\ RatingUnknown
    /\ Len(score.details) = 10
    /\ score.details[1].maxScore = 130

\* the trailing-1y return after coercion of NaN and +-Infinity to 0
CoercedYear1 ==
    IF fund.performance.returnYear1[1] = "fin" THEN fund.performance.returnYear1[2] ELSE 0

\* C3: the momentum penalty reported is 5 when the trailing-1y return is > 50,
\* 3 when it is > 30 and <= 50, and 0 otherwise, the return being coerced to 0
\* first when it is NaN or +-Infinity.
C3_MomentumPenalty ==
    Done =>
        /\ (CoercedYear1 > 50000) => score.momentumPenalty = 5
        /\ (CoercedYear1 > 30000 /\ CoercedYear1 <= 50000) => score.momentumPenalty = 3
        /\ (CoercedYear1 <= 30000) => score.momentumPenalty = 0

C3_Witness ==
    /\ Done
    /\ fund.performance.returnYear1 = Fin(50000)
    /\ score.momentumPenalty = 3

\* the sum of the three dimension scores, in tenths
DimensionSum == score.returnScore + score.riskScore + score.overallScore

\* C4: the momentum penalty is never deducted from the tier-relative score:
\* tierScore is the 1-decimal sum of the tier-view item scores capped at 100,
\* whatever the trailing-1y return, while marketScore carries the deduction.
C4_TierScoreNoPenalty ==
    Done =>
        /\ score.tierScore = Min(1000, SumScores(score.tierDetails))
        /\ score.marketScore = DimensionSum - 10 * score.momentumPenalty
           \/ score.marketScore = 0

C4_Witness ==
    /\ Done
    /\ score.momentumPenalty = 5
    /\ score.tierScore = SumScores(score.tierDetails)
    /\ score.tierScore < 1000
    /\ score.marketScore = DimensionSum - 50

\* C5: marketScore equals max(0, S - momentumPenalty), S being the sum of
\* returnScore, riskScore and overallScore rounded to 1 decimal, and totalScore
\* always equals marketScore.
C5_MarketScore ==
    Done =>
        /\ score.marketScore = Max(0, DimensionSum - 10 * score.momentumPenalty)
        /\ score.totalScore = score.marketScore

C5_Witness ==
    /\ Done
    /\ score.momentumPenalty = 3
    /\ score.marketScore = DimensionSum - 30
    /\ score.totalScore = score.marketScore

\* C6: for every input record, including extreme, all-zero, NaN and infinite
\* field values and a missing rating, marketScore and tierScore both lie in the
\* closed range 0 to 100.
C6_ScoreRange ==
    Done =>
        /\ 0 <= score.marketScore /\ score.marketScore <= 1000
        /\ 0 <= score.tierScore /\ score.tierScore <= 1000

C6_Witness ==
    /\ Done
    /\ fund.performance.returnYear1 = Fin(-9999000)
    /\ fund.performance.riskByPeriod.year1 = <<MetricsNaN>>
    /\ fund.performance.riskByPeriod.all = MetricsNaN
    /\ ~ hasMorningstarOf(fund.meta)
    /\ score.marketScore >= 0
    /\ score.tierScore >= 0

\* the record with every NaN or +-Infinity numeric input replaced by 0
CoerceNum(x) == IF isFinite(x) THEN x ELSE Fin(0)

CoerceMetrics(m) == [f \in DOMAIN m |-> CoerceNum(m[f])]

CoerceFund(data) ==
    [basic |-> data.basic,
     performance |->
        [returnYear1 |-> CoerceNum(data.performance.returnYear1),
         returnYear3 |-> CoerceNum(data.performance.returnYear3),
         riskByPeriod |->
            [year1 |-> [i \in DOMAIN data.performance.riskByPeriod.year1 |->
                           CoerceMetrics(data.performance.riskByPeriod.year1[i])],
             year3 |-> [i \in DOMAIN data.performance.riskByPeriod.year3 |->
                           CoerceMetrics(data.performance.riskByPeriod.year3[i])],
             all |-> CoerceMetrics(data.performance.riskByPeriod.all)]],
     meta |-> [f \in DOMAIN data.meta |-> CoerceNum(data.meta[f])]]

\* the same, the meta fields left as they are
CoercePerformance(data) == [CoerceFund(data) EXCEPT !.meta = data.meta]

\* C7 as stated: a record in which some numeric input (a return, a period risk
\* metric or a meta field) is NaN or +-Infinity receives exactly the scores it
\* would receive with that input replaced by 0.
C7_CoercedToZero == Done => score = scoreFund(CoerceFund(fund))

\* the part of C7 the code keeps: non-finite returns and period risk metrics
\* score as 0 does
C7_PerformanceCoerced == Done => score = scoreFund(CoercePerformance(fund))

C7_PerformanceWitness ==
    /\ Done
    /\ fund.performance.returnYear1 = PosInf
    /\ fund.performance.riskByPeriod.year3 = <<MetricsInf>>

\* the periods of the record, year1, year3, all, a missing one being <<>>
PeriodsOf == periodWeightsOf(fund.performance.riskByPeriod)

PresentPeriods == {i \in 1..3 : PeriodsOf[i].metrics # <<>>}

\* nominal weights 0.4, 0.3, 0.3 in tenths
NominalWeight == <<4, 3, 3>>

RECURSIVE SumWeights(_)
SumWeights(S) ==
    IF S = {} THEN 0
    ELSE LET i == CHOOSE x \in S : TRUE IN NominalWeight[i] + SumWeights(S \ {i})

\* the weighted average of per-period scores s over the present periods, each
\* nominal weight divided by the sum of the present ones
RECURSIVE RenormalizedAverage(_, _)
RenormalizedAverage(S, s) ==
    IF S = {} THEN RInt(0)
    ELSE LET i == CHOOSE x \in S : TRUE
         IN  RAdd(RMul(Rat(NominalWeight[i], SumWeights(PresentPeriods)), s[i]),
                  RenormalizedAverage(S \ {i}, s))

ScaledWeight(w) == RMul(RInt(w), scaleOf(hasMorningstarOf(fund.meta)))

Category == classifyFund(fund.basic.type)

\* per-period scores of the five multi-period items, by position in details
PeriodScoresOf(k) ==
    CASE k = 1 -> higherBetterByPeriod(PeriodsOf, "sharpeRatio",
                      SHARPE_BENCHMARKS[Category], ScaledWeight(SCORE_WEIGHT.SHARPE))
      [] k = 2 -> higherBetterByPeriod(PeriodsOf, "sortinoRatio",
                      SORTINO_BENCHMARKS[Category], ScaledWeight(SCORE_WEIGHT.SORTINO))
      [] k = 5 -> higherBetterByPeriod(PeriodsOf, "calmarRatio",
                      CALMAR_BENCHMARKS[Category], ScaledWeight(SCORE_WEIGHT.CALMAR))
      [] k = 6 -> lowerBetterByPeriod(PeriodsOf, "maxDrawdown",
                      DRAWDOWN_BENCHMARKS[Category], ScaledWeight(SCORE_WEIGHT.MAX_DRAWDOWN))
      [] k = 7 -> lowerBetterByPeriod(PeriodsOf, "volatility",
                      VOLATILITY_BENCHMARKS[Category], ScaledWeight(SCORE_WEIGHT.VOLATILITY))

MultiPeriodItems == {1, 2, 5, 6, 7}

\* C8: for each multi-period metric the combined item score is the weighted
\* average of the per-period scores over the present periods, the nominal
\* weights 0.4/0.3/0.3 renormalized to sum to 1 over them; when every present
\* period earns the item's max, the combined score is the max.
C8_RenormalizedWeights ==
    Done =>
        \A k \in MultiPeriodItems :
            /\ score.details[k].score
                   = round1(RenormalizedAverage(PresentPeriods, PeriodScoresOf(k)))
            /\ (\A i \in PresentPeriods :
                    PeriodScoresOf(k)[i] = ScaledWeight(ItemWeight[score.details[k].item]))
                => score.details[k].score = score.details[k].maxScore

C8_Witness ==
    /\ Done
    /\ PresentPeriods = {1, 3}
    /\ fund.performance.riskByPeriod.year1 = <<MetricsBest>>
    /\ fund.performance.riskByPeriod.all = MetricsBest
    /\ ~ hasMorningstarOf(fund.meta)
    /\ score.details[1].score = score.details[1].maxScore
    /\ score.details[1].score = 130

-----------------------------------------------------------------------------
(* Properties of classifyRiskTier *)

\* position of a tier in the order very_low < low < medium < medium_high < high
Severity(t) ==
    CASE t = "very_low" -> 1 [] t = "low" -> 2 [] t = "medium" -> 3
      [] t = "medium_high" -> 4 [] t = "high" -> 5

\* C9: classifyRiskTier returns the more severe of the tier derived from the
\* type text and the tier derived from realized volatility; the result is never
\* less severe than either of the two.
C9_MoreSevereTier ==
    Done =>
        /\ riskTier \in {typeTierOf(fundType), volTierOf(volatility)}
        /\ Severity(riskTier) >= Severity(typeTierOf(fundType))
        /\ Severity(riskTier) >= Severity(volTierOf(volatility))

C9_Witness ==
    /\ Done
    /\ typeTierOf(fundType) = "low"
    /\ volTierOf(volatility) = "high"
    /\ riskTier = "high"

-----------------------------------------------------------------------------
(* Properties of backtestAtDate *)

BacktestDone == pc = "done" /\ backtest # NoBacktest /\ laterBacktest # NoBacktest

\* the points of a series with a timestamp <= evalDate
PointsUpTo(navData) == SelectSeq(navData, LAMBDA p : p[1] <= evalDate)

\* C1: the metrics breakdown and the score computed at evaluation date T depend
\* only on the series points with timestamp <= T: two series that agree on every
\* point <= T yield the same metrics and the same score at T, in the locals of
\* the call and in the samples it returns.
C1_NoLookahead ==
    BacktestDone /\ PointsUpTo(accNavData) = PointsUpTo(laterNavData) =>
        /\ backtest.metrics = laterBacktest.metrics
        /\ backtest.fundData = laterBacktest.fundData
        /\ backtest.score = laterBacktest.score
        /\ backtest.result # <<>> /\ laterBacktest.result # <<>> =>
               /\ backtest.result[1].metrics = laterBacktest.result[1].metrics
               /\ backtest.result[1].score = laterBacktest.result[1].score
               /\ backtest.result[1].scoreDetails = laterBacktest.result[1].scoreDetails

\* two samples at the same T from series whose futures differ: the forward
\* returns differ, the trailing windows and the full-history metrics are live
C1_Witness ==
    /\ BacktestDone
    /\ PointsUpTo(accNavData) = PointsUpTo(laterNavData)
    /\ accNavData # laterNavData
    /\ backtest.result # <<>>
    /\ laterBacktest.result # <<>>
    /\ backtest.result[1].forwardReturns # laterBacktest.result[1].forwardReturns
    /\ backtest.metrics.returnYear1 # Fin(0)
    /\ backtest.metrics.returnYear3 # Fin(0)
    /\ backtest.metrics.sharpeRatio # Fin(0)
    /\ backtest.metrics.maxDrawdown # Fin(0)
    /\ backtest.metrics.volatility # Fin(0)
    /\ backtest.result[1].score = laterBacktest.result[1].score

AllForwardsNaN(forwardReturns) ==
    \A k \in 1..Len(forwardReturns) : forwardReturns[k].return = NaN

\* C10: a call of backtestAtDate for which every requested forward horizon is
\* NaN returns null, so the sample is absent from the results; every sample
\* returned carries at least one forward return, and none of them is NaN.
C10_NoSampleWithoutForward ==
    backtest # NoBacktest =>
        /\ AllForwardsNaN(backtest.forwardReturns) => backtest.result = <<>>
        /\ backtest.result # <<>> =>
               /\ Len(backtest.result[1].forwardReturns) >= 1
               /\ \A k \in 1..Len(backtest.result[1].forwardReturns) :
                      backtest.result[1].forwardReturns[k].return # NaN

\* two horizons were requested, both came out NaN, and no sample was returned
C10_Witness ==
    /\ backtest # NoBacktest
    /\ Len(forwardYears) = 2
    /\ Len(backtest.forwardReturns) = 2
    /\ AllForwardsNaN(backtest.forwardReturns)
    /\ backtest.result = <<>>

\* a sample was kept with one horizon evaluable and the other one not
C10_PartialWitness ==
    /\ backtest # NoBacktest
    /\ Len(backtest.forwardReturns) = 2
    /\ backtest.result # <<>>
    /\ Len(backtest.result[1].forwardReturns) = 1

\* C11: every sample kept in the backtest report carries one forward-return
\* entry for each requested horizon, in the order requested, a horizon that
\* could not be evaluated being held as NaN.
C11_EntryPerHorizon ==
    (backtest # NoBacktest /\ backtest.result # <<>>) =>
        /\ Len(backtest.result[1].forwardReturns) = Len(forwardYears)
        /\ \A k \in 1..Len(forwardYears) :
               backtest.result[1].forwardReturns[k].period = forwardYears[k]

-----------------------------------------------------------------------------
(* Deep scoring model: quantitative metrics and holdings analysis.           *)
(* return 30 + risk 30 + holdings 15 + stability 10 + overall 15 = 100.      *)
(* Its own safeNum, scoreHigherBetter, scoreLowerBetter, scoreMorningstar,   *)
(* scoreFundSize, scoreManagerYears and weightedPeriodScore are the same     *)
(* functions, with the same literals, as the ones defined above; its        *)
(* RETURN_YEAR1, RETURN_YEAR3, SHARPE, DRAWDOWN and VOLATILITY benchmark     *)
(* tables hold the same values as the tables above, and its period weights   *)
(* 0.4 / 0.3 / 0.3 are those of periodWeightsOf.                             *)

ALPHA_BENCHMARKS ==
    [bond     |-> Bm(50, 30, 10, -20),
     balanced |-> Bm(100, 50, 20, -30),
     equity   |-> Bm(150, 80, 30, -50)]

\* daily VaR, lower is better
VAR_BENCHMARKS ==
    [bond     |-> Bm(3, 5, 8, 12),
     balanced |-> Bm(10, 15, 20, 30),
     equity   |-> Bm(15, 20, 30, 40)]

WIN_RATE_BENCHMARKS ==
    [bond     |-> Bm(750, 650, 550, 450),
     balanced |-> Bm(650, 580, 500, 420),
     equity   |-> Bm(600, 550, 480, 400)]

IR_BENCHMARKS ==
    [bond     |-> Bm(1500, 1000, 500, 0),
     balanced |-> Bm(1000, 700, 300, 0),
     equity   |-> Bm(1000, 700, 300, 0)]

\* safeNum(beta, 1): a beta that is not finite counts as 1
scoreBeta(beta, maxScore) ==
    LET b == IF isFinite(beta) THEN beta[2] ELSE 1000
    IN  IF b >= 600 /\ b <= 900 THEN maxScore
        ELSE IF b >= 400 /\ b < 600 THEN RMul(maxScore, Rat(8, 10))
        ELSE IF b > 900 /\ b <= 1000 THEN RMul(maxScore, Rat(8, 10))
        ELSE IF b > 1000 /\ b <= 1200 THEN RMul(maxScore, Rat(5, 10))
        ELSE IF b > 1200 THEN RMul(maxScore, Rat(3, 10))
        ELSE RMul(maxScore, Rat(6, 10))

\* ratio is a percentage; the comparisons are all false on NaN
scoreTopHoldings(ratio, maxScore) ==
    IF JsGe(ratio, 20000) /\ JsLe(ratio, 50000) THEN maxScore
    ELSE IF JsGt(ratio, 50000) /\ JsLe(ratio, 65000) THEN RMul(maxScore, Rat(7, 10))
    ELSE IF JsGt(ratio, 65000) THEN RMul(maxScore, Rat(4, 10))
    ELSE IF JsGe(ratio, 10000) /\ JsLt(ratio, 20000) THEN RMul(maxScore, Rat(8, 10))
    ELSE RMul(maxScore, Rat(5, 10))

\* a negative hhi is the sentinel of a fund without industry breakdown
scoreHHI(hhi, maxScore) ==
    IF JsLt(hhi, 0) THEN RMul(maxScore, Rat(5, 10))
    ELSE IF JsGe(hhi, 50) /\ JsLe(hhi, 150) THEN maxScore
    ELSE IF JsGt(hhi, 150) /\ JsLe(hhi, 250) THEN RMul(maxScore, Rat(7, 10))
    ELSE IF JsGt(hhi, 250) THEN RMul(maxScore, Rat(4, 10))
    ELSE IF JsLt(hhi, 50) THEN RMul(maxScore, Rat(8, 10))
    ELSE RMul(maxScore, Rat(5, 10))

\* positiveRatio is an exact rational
scoreRollingConsistency(positiveRatio, maxScore) ==
    IF RLe(Rat(85, 100), positiveRatio) THEN maxScore
    ELSE IF RLe(Rat(75, 100), positiveRatio) THEN RMul(maxScore, Rat(8, 10))
    ELSE IF RLe(Rat(60, 100), positiveRatio) THEN RMul(maxScore, Rat(6, 10))
    ELSE IF RLe(Rat(45, 100), positiveRatio) THEN RMul(maxScore, Rat(4, 10))
    ELSE RMul(maxScore, Rat(2, 10))

\* mutant of hhiScoreOf: holdings without quant metrics score the full 8
hhiScoreFullWithoutQuant(quantArg, holdingsArg) ==
    IF holdingsArg # <<>>
    THEN (IF quantArg # <<>> THEN scoreHHI(quantArg[1].hhi, RInt(8)) ELSE RInt(8))
    ELSE RInt(4)

\* holdings ? (quant ? scoreHHI(quant.hhi, 8) : 4) : 4
hhiScoreOf(quantArg, holdingsArg) ==
    IF holdingsArg # <<>>
    THEN (IF quantArg # <<>> THEN scoreHHI(quantArg[1].hhi, RInt(8)) ELSE RInt(4))
    ELSE RInt(4)

\* the details array as pushed, before the loop that rounds it; maxScore is
\* counted in whole points; quant and holdings are <<>> when omitted
deepDetailsOf(p, m, cat, quantArg, holdingsArg, periods) ==
    << [item |-> "returnYear1", maxScore |-> 8,
        score |-> scoreHigherBetter(p.returnYear1, RETURN_YEAR1_BENCHMARKS[cat], RInt(8))],
       [item |-> "returnYear3", maxScore |-> 7,
        score |-> scoreHigherBetter(p.returnYear3, RETURN_YEAR3_BENCHMARKS[cat], RInt(7))],
       [item |-> "alpha", maxScore |-> 10,
        score |-> IF quantArg # <<>>
                  THEN scoreHigherBetter(quantArg[1].alpha, ALPHA_BENCHMARKS[cat], RInt(10))
                  ELSE RInt(5)],
       [item |-> "monthlyWinRate", maxScore |-> 5,
        score |-> IF quantArg # <<>>
                  THEN scoreHigherBetter(quantArg[1].monthlyWinRate,
                                         WIN_RATE_BENCHMARKS[cat], RInt(5))
                  ELSE Rat(25, 10)],
       [item |-> "sharpeRatio", maxScore |-> 10,
        score |-> weightedPeriodScore(periods,
                      higherBetterByPeriod(periods, "sharpeRatio",
                                           SHARPE_BENCHMARKS[cat], RInt(10)))],
       [item |-> "maxDrawdown", maxScore |-> 8,
        score |-> weightedPeriodScore(periods,
                      lowerBetterByPeriod(periods, "maxDrawdown",
                                          DRAWDOWN_BENCHMARKS[cat], RInt(8)))],
       [item |-> "beta", maxScore |-> 5,
        score |-> IF quantArg # <<>> THEN scoreBeta(quantArg[1].beta, RInt(5))
                  ELSE Rat(25, 10)],
       [item |-> "var95", maxScore |-> 4,
        score |-> IF quantArg # <<>>
                  THEN scoreLowerBetter(quantArg[1].var95, VAR_BENCHMARKS[cat], RInt(4))
                  ELSE RInt(2)],
       [item |-> "volatility", maxScore |-> 3,
        score |-> weightedPeriodScore(periods,
                      lowerBetterByPeriod(periods, "volatility",
                                          VOLATILITY_BENCHMARKS[cat], RInt(3)))],
       [item |-> "hhi", maxScore |-> 8, score |-> hhiScoreOf(quantArg, holdingsArg)],
       [item |-> "topHoldingsRatio", maxScore |-> 7,
        score |-> IF holdingsArg # <<>>
                  THEN (IF quantArg # <<>>
                        THEN scoreTopHoldings(quantArg[1].topHoldingsRatio, RInt(7))
                        ELSE Rat(35, 10))
                  ELSE Rat(35, 10)],
       [item |-> "informationRatio", maxScore |-> 5,
        score |-> IF quantArg # <<>>
                  THEN scoreHigherBetter(quantArg[1].informationRatio,
                                         IR_BENCHMARKS[cat], RInt(5))
                  ELSE Rat(25, 10)],
       [item |-> "consistency", maxScore |-> 5,
        score |-> IF quantArg # <<>>
                  THEN scoreRollingConsistency(
                           IF JsGt(quantArg[1].cagr, 0) THEN Rat(7, 10) ELSE Rat(4, 10),
                           RInt(5))
                  ELSE Rat(25, 10)],
       [item |-> "fundSize", maxScore |-> 5,
        score |-> scoreFundSize(m.fundSize, RInt(5))],
       [item |-> "managerYears", maxScore |-> 5,
        score |-> scoreManagerYears(m.managerYears, RInt(5))],
       [item |-> "morningstar", maxScore |-> 5,
        score |-> IF JsGt(m.morningstarRating, 0)
                  THEN scoreMorningstar(m.morningstarRating, RInt(5))
                  ELSE Rat(25, 10)] >>

RECURSIVE SumExact(_, _, _)
\* details[from].score + ... + details[to].score, unrounded
SumExact(details, from, to) ==
    IF from > to THEN RInt(0)
    ELSE RAdd(details[from].score, SumExact(details, from + 1, to))

\* the five dimension scores, each the rounded sum of its items' unrounded
\* scores, their rounded total, and the rounded details
deepScoreFromDetails(details) ==
    [returnScore    |-> round1(SumExact(details, 1, 4)),
     riskScore      |-> round1(SumExact(details, 5, 9)),
     holdingScore   |-> round1(SumExact(details, 10, 11)),
     stabilityScore |-> round1(SumExact(details, 12, 13)),
     overallScore   |-> round1(SumExact(details, 14, 16)),
     totalScore     |-> round1(Tenths(round1(SumExact(details, 1, 4))
                                      + round1(SumExact(details, 5, 9))
                                      + round1(SumExact(details, 10, 11))
                                      + round1(SumExact(details, 12, 13))
                                      + round1(SumExact(details, 14, 16)))),
     details        |-> roundDetails(details)]

scoreFundDeep(data, quantArg, holdingsArg) ==
    deepScoreFromDetails(
        deepDetailsOf(data.performance, data.meta, classifyFund(data.basic.type),
                      quantArg, holdingsArg,
                      periodWeightsOf(data.performance.riskByPeriod)))

-----------------------------------------------------------------------------
(* Calls of scoreFundDeep *)

MakeQuant(alpha, beta, var95, hhi, topHoldingsRatio, cagr) ==
    [alpha |-> alpha, beta |-> beta, informationRatio |-> Fin(800),
     treynorRatio |-> Fin(100), var95 |-> var95, cvar95 |-> Fin(30),
     monthlyWinRate |-> Fin(560), downsideCaptureRatio |-> Fin(900),
     cagr |-> cagr, hhi |-> hhi, topHoldingsRatio |-> topHoldingsRatio]

\* the QuantMetrics argument: omitted, or a record
QuantInputs ==
    {<<>>} \cup
    { <<MakeQuant(alpha, beta, var95, hhi, topHoldingsRatio, cagr)>> :
        alpha \in {Fin(120), Fin(-300)},
        beta \in {Fin(800), Fin(1300), NaN},
        var95 \in {Fin(12), Fin(60)},
        hhi \in {Fin(-1000), Fin(100), Fin(300), NaN},
        topHoldingsRatio \in {Fin(0), Fin(35000), Fin(70000)},
        cagr \in {Fin(90), Fin(-20)} }

\* the FundHoldings argument: omitted, or a record
HoldingsInputs ==
    {<<>>,
     <<[topStocks |-> <<>>, industries |-> <<>>, reportDate |-> "2024-06-30"]>>,
     <<[topStocks |-> <<[name |-> "a", percent |-> Fin(35000)]>>,
        industries |-> <<[industry |-> "x", percent |-> Fin(100000)]>>,
        reportDate |-> "2024-06-30"]>>}

DeepFundInputs ==
    { MakeFund(type, returnYear1, Fin(40000), year1, <<>>, MetricsTypical, rating,
               Fin(50000), Fin(5000), Fin(1200)) :
        type \in CategoryTypes,
        returnYear1 \in {Fin(15000), NaN},
        year1 \in {<<>>, <<MetricsBest>>},
        rating \in {Fin(0), Fin(4000)} }

InitDeep ==
    /\ fund \in DeepFundInputs
    /\ score = NoScore
    /\ fundType = <<>>
    /\ volatility = Fin(0)
    /\ riskTier = ""
    /\ BacktestIdle
    /\ quant \in QuantInputs
    /\ holdings \in HoldingsInputs
    /\ deepScore = <<>>
    /\ industryHHI = <<>>
    /\ PeriodIdle
    /\ QuantIdle
    /\ LaterIdle
    /\ pc = "scoreFundDeep"

ScoreFundDeep ==
    /\ pc = "scoreFundDeep"
    /\ deepScore' = scoreFundDeep(fund, quant, holdings)
    /\ pc' = "done"
    /\ UNCHANGED <<scoreVars, tierVars, backtestVars, quant, holdings, industryHHI,
                   periodVars, quantVars, laterVars>>

NextDeep == ScoreFundDeep

SpecDeep == InitDeep /\ [][NextDeep]_vars

\* the entry of the deep score's details with the given item name
DeepDetail(item) ==
    CHOOSE d \in {deepScore.details[i] : i \in 1..Len(deepScore.details)} : d.item = item

\* the item's score, in tenths, is half of its max score, in whole points
HalfOfMax(item) == 2 * DeepDetail(item).score = 10 * DeepDetail(item).maxScore

QuantItems == {"alpha", "beta", "var95", "monthlyWinRate", "informationRatio"}
HoldingItems == {"hhi", "topHoldingsRatio"}

\* C12: in the deep score, an item whose optional input is absent scores exactly
\* half of its max score: the five quant items and the two holdings items when
\* no quant metrics are passed, the two holdings items when no holdings are
\* passed, and the HHI item when the HHI is the negative no-breakdown sentinel.
C12_AbsentScoresHalf ==
    deepScore # <<>> =>
        /\ quant = <<>> => \A item \in QuantItems \cup HoldingItems : HalfOfMax(item)
        /\ holdings = <<>> => \A item \in HoldingItems : HalfOfMax(item)
        /\ (quant # <<>> /\ JsLt(quant[1].hhi, 0)) => HalfOfMax("hhi")

\* the deep score of a fund passed with holdings but without quant metrics
C12_Witness ==
    /\ deepScore # <<>>
    /\ quant = <<>>
    /\ holdings # <<>>

\* the deep score of a fund passed with quant metrics but without holdings
C12_NoHoldingsWitness ==
    /\ deepScore # <<>>
    /\ quant # <<>>
    /\ holdings = <<>>
    /\ ~HalfOfMax("alpha")

-----------------------------------------------------------------------------
\* C13: the tier view of a fund's score lists the same items, in the same
\* order, with the same max scores as the market view, the rescaled max scores
\* of a fund whose rating is unknown included.
C13_SameItemsAndMaxScores ==
    score # NoScore =>
        /\ Len(score.tierDetails) = Len(score.details)
        /\ \A i \in 1..Len(score.details) :
               /\ score.tierDetails[i].item = score.details[i].item
               /\ score.tierDetails[i].maxScore = score.details[i].maxScore

\* C14 as stated: for every fund, totalScore equals returnScore + riskScore +
\* overallScore rounded to 1 decimal.
C14_TotalIsDimensionSum ==
    Done => score.totalScore = DimensionSum

\* C14: totalScore equals returnScore + riskScore + overallScore rounded to 1
\* decimal for every fund whose momentum penalty is 0; for a fund with a
\* momentum penalty it is that sum less the penalty, floored at 0, and so
\* never above the sum.
C14_TotalIsSumLessPenalty ==
    Done =>
        /\ (score.momentumPenalty = 0) => score.totalScore = DimensionSum
        /\ (score.momentumPenalty > 0) =>
               /\ score.totalScore = Max(0, DimensionSum - 10 * score.momentumPenalty)
               /\ score.totalScore < DimensionSum \/ DimensionSum = 0
        /\ score.totalScore <= DimensionSum

\* a fund penalized by 5 points whose total is 5 below the sum of its dimensions
C14_Witness ==
    /\ Done
    /\ score.momentumPenalty = 5
    /\ score.totalScore = DimensionSum - 50
    /\ score.totalScore > 0

-----------------------------------------------------------------------------
(* Period risk metrics of the live analysis (calcRiskMetrics).  Its          *)
(* calcMaxDrawdown, calcVolatility, calcSharpeRatio, calcSortinoRatio,       *)
(* calcCalmarRatio, calcAnnualizedReturn and calcPeriodRiskMetrics have the  *)
(* bodies of the backtest kernel's functions above and are modelled by the   *)
(* same operators; its navData may be null, and its window is cut by         *)
(* sliceNavData, not sliceNavWindow.                                         *)

\* null is <<>>, a window is <<sliced>>; the loop leaves startIdx at the first
\* point when no timestamp reaches the cutoff
sliceNavData(navData, windowYears) ==
    IF Len(navData) = 0 THEN <<>>
    ELSE LET latestTs == navData[Len(navData)][1]
             found == firstIndexAtOrAfter(navData, 1,
                          4 * latestTs - windowYears * QuarterDaysPerYear)
             sliced == SubSeq(navData, IF found = 0 THEN 1 ELSE found, Len(navData))
         IN  IF 40 * (sliced[Len(sliced)][1] - sliced[1][1])
                    < windowYears * QuarterDaysPerYear * 8
             THEN <<>>
             ELSE <<sliced>>

\* the all-time metrics; navArg is <<>> (null) or <<series>>
allMetricsOf(navArg, returnYear1) ==
    IF navArg = <<>>
    THEN [maxDrawdown |-> Fin(0), volatility |-> Fin(0), sharpeRatio |-> Fin(0),
          sortinoRatio |-> Fin(0), calmarRatio |-> Fin(0)]
    ELSE [maxDrawdown |-> Fin(calcMaxDrawdown(navArg[1])),
          volatility |-> Fin(calcVolatility(navArg[1])),
          sharpeRatio |-> Fin(calcSharpeRatio(navArg[1])),
          sortinoRatio |-> Fin(calcSortinoRatio(navArg[1], returnYear1)),
          calmarRatio |-> Fin(calcCalmarRatio(calcAnnualizedReturn(navArg[1]),
                                              calcMaxDrawdown(navArg[1])))]

\* the breakdown returned, with the locals nav1y and nav3y
periodBreakdownOf(navArg, returnYear1, nav1y, nav3y) ==
    [year1 |-> calcPeriodRisk(nav1y, returnYear1),
     year3 |-> calcPeriodRisk(nav3y, returnYear1),
     all   |-> allMetricsOf(navArg, returnYear1),
     nav1y |-> nav1y,
     nav3y |-> nav3y]

calcMultiPeriodRiskMetrics(navArg, returnYear1) ==
    periodBreakdownOf(navArg, returnYear1,
                      IF navArg = <<>> THEN <<>> ELSE sliceNavData(navArg[1], 1),
                      IF navArg = <<>> THEN <<>> ELSE sliceNavData(navArg[1], 3))

-----------------------------------------------------------------------------
(* Calls of calcMultiPeriodRiskMetrics *)

\* days between two points: weekly, monthly and two-monthly series
PeriodSteps == StepDays \cup {60}

\* null, or a series of 0 to MaxPoints points
RawNavInputs ==
    {<<>>} \cup
    { <<SeriesOf(pattern, step, n)>> :
        pattern \in NavPatterns, step \in PeriodSteps,
        n \in {0, 1, 2, 5, 9, 10, 29, 30, MaxPoints} }

InitPeriod ==
    /\ fund = NoFund
    /\ score = NoScore
    /\ fundType = <<>>
    /\ volatility = Fin(0)
    /\ riskTier = ""
    /\ BacktestIdle
    /\ DeepIdle
    /\ QuantIdle
    /\ LaterIdle
    /\ rawNavData \in RawNavInputs
    /\ trailingReturn \in {15000, -5000}
    /\ riskBreakdown = <<>>
    /\ pc = "calcMultiPeriodRiskMetrics"

CalcMultiPeriodRiskMetrics ==
    /\ pc = "calcMultiPeriodRiskMetrics"
    /\ riskBreakdown' = calcMultiPeriodRiskMetrics(rawNavData, trailingReturn)
    /\ pc' = "done"
    /\ UNCHANGED <<scoreVars, tierVars, backtestVars, deepVars, quantVars,
                   rawNavData, trailingReturn, laterVars>>

NextPeriod == CalcMultiPeriodRiskMetrics

SpecPeriod == InitPeriod /\ [][NextPeriod]_vars

\* the raw series passed in, null counting as no point
RawSeries == IF rawNavData = <<>> THEN <<>> ELSE rawNavData[1]

\* the window is null or spans at least 80% of years * 365.25 days with at
\* least 10 points
NullOrFullWindow(window, years) ==
    window # <<>> =>
        /\ 40 * (window[1][Len(window[1])][1] - window[1][1][1])
               >= years * QuarterDaysPerYear * 8
        /\ Len(window[1]) >= 10

\* C15: the window sliceNavData cuts for 1 year and for 3 years is null unless
\* its elapsed span is at least 80% of years * 365.25 days and it holds at
\* least 10 points.
C15_SliceNullUnlessSpanAndPoints ==
    riskBreakdown # <<>> =>
        /\ NullOrFullWindow(riskBreakdown.nav1y, 1)
        /\ NullOrFullWindow(riskBreakdown.nav3y, 3)

ZeroMetrics ==
    [maxDrawdown |-> Fin(0), volatility |-> Fin(0), sharpeRatio |-> Fin(0),
     sortinoRatio |-> Fin(0), calmarRatio |-> Fin(0)]

\* C16: the breakdown always holds `all`, and every field of `all` is 0 when the
\* raw series has fewer than 10 points.
C16_AllZeroUnderTenPoints ==
    riskBreakdown # <<>> =>
        /\ "all" \in DOMAIN riskBreakdown
        /\ Len(RawSeries) < 10 => riskBreakdown.all = ZeroMetrics

\* the largest decline from any value of the series to any later value, a
\* rational: the maximum over i <= j of (v_i - v_j) / v_i
MaxPairDecline(series) ==
    LET later == { Rat(series[p[1]][2] - series[p[2]][2], series[p[1]][2]) :
                     p \in {q \in (1..Len(series)) \X (1..Len(series)) : q[1] <= q[2]} }
    IN  CHOOSE m \in later : \A d \in later : RLe(d, m)

\* a fraction as a percentage rounded to 2 decimals, in thousandths
PercentRounded2(fraction) == 10 * RoundDiv(fraction[1] * 10000, fraction[2])

NonDecreasing(series) ==
    \A i \in 2..Len(series) : series[i - 1][2] <= series[i][2]

\* C17: the max drawdown of a series is the largest decline from any value to
\* any later value, as a percentage rounded to 2 decimals; it is 0 for a
\* series of fewer than 2 points and for a non-decreasing series.
C17_MaxDrawdownIsLargestDecline ==
    riskBreakdown # <<>> =>
        /\ Len(RawSeries) >= 2 =>
               riskBreakdown.all.maxDrawdown
                   = Fin(PercentRounded2(MaxPairDecline(RawSeries)))
        /\ Len(RawSeries) < 2 => riskBreakdown.all.maxDrawdown = Fin(0)
        /\ NonDecreasing(RawSeries) => riskBreakdown.all.maxDrawdown = Fin(0)

\* a series whose largest decline starts at a peak that is not its first value
C17_Witness ==
    /\ riskBreakdown # <<>>
    /\ Len(RawSeries) = MaxPoints
    /\ RawSeries[1][2] < RawSeries[Len(RawSeries)][2]
    /\ riskBreakdown.all.maxDrawdown = Fin(10000)

\* no daily return of the series lies below the daily risk-free rate 0.02/252
NoReturnBelowRiskFree(series) ==
    \A i \in 2..Len(series) :
        12600 * (series[i][2] - series[i - 1][2]) >= series[i - 1][2]

\* the Sortino ratio of a window that is present is 3 when the window has no
\* return below the risk-free rate
WindowCeiling(window, metrics) ==
    (window # <<>> /\ metrics # <<>>) =>
        (NoReturnBelowRiskFree(window[1]) => metrics[1].sortinoRatio = Fin(3000))

\* C18: the Sortino ratio is exactly 3 for a series of at least 10 points with
\* no daily return below the daily risk-free rate, and 0 for a series of fewer
\* than 10 points.
C18_SortinoCeiling ==
    riskBreakdown # <<>> =>
        /\ (Len(RawSeries) >= 10 /\ NoReturnBelowRiskFree(RawSeries)) =>
               riskBreakdown.all.sortinoRatio = Fin(3000)
        /\ Len(RawSeries) < 10 => riskBreakdown.all.sortinoRatio = Fin(0)
        /\ WindowCeiling(riskBreakdown.nav1y, riskBreakdown.year1)
        /\ WindowCeiling(riskBreakdown.nav3y, riskBreakdown.year3)

\* a rising series of 30 points, with a 1-year window, whose ratios are 3
C18_Witness ==
    /\ riskBreakdown # <<>>
    /\ Len(RawSeries) = 30
    /\ NoReturnBelowRiskFree(RawSeries)
    /\ riskBreakdown.all.sortinoRatio = Fin(3000)
    /\ riskBreakdown.year1 # <<>>
    /\ riskBreakdown.year1[1].sortinoRatio = Fin(3000)

-----------------------------------------------------------------------------
(* Risk analysis against a benchmark (riskAnalyzer).                         *)
(* A NavRecord or BenchmarkRecord is [date, dailyReturn]: date a day number, *)
(* dailyReturn a percentage counted in hundredths of a percent.  Returns as  *)
(* fractions are held in units of 1e-5 (ReturnUnit), so dailyReturn / 100 is *)
(* 10 * dailyReturn.  beta and the information ratio are in thousandths,     *)
(* alpha, VaR and CVaR in units of 1e-5.                                     *)

\* DEFAULT_RISK_FREE_RATE / 252 = 0.025 / 252, in units of 1e-5
dailyRf == 10

\* the returns of the fund's records whose date the benchmark has, with the
\* benchmark's return of that date (the last one the Map holds for the date)
alignReturns(navs, bench) ==
    LET has(date) == \E j \in 1..Len(bench) : bench[j].date = date
        benchReturn(date) ==
            bench[CHOOSE j \in 1..Len(bench) :
                      /\ bench[j].date = date
                      /\ \A k \in (j + 1)..Len(bench) : bench[k].date # date].dailyReturn
        kept == SelectSeq(navs, LAMBDA nav : has(nav.date))
    IN  [fundReturns  |-> [i \in 1..Len(kept) |-> 10 * kept[i].dailyReturn],
         benchReturns |-> [i \in 1..Len(kept) |-> 10 * benchReturn(kept[i].date)]]

\* y = alpha + beta * x; beta in thousandths, alpha in the unit of y
linearRegression(x, y) ==
    IF Len(x) < 2 THEN [alpha |-> 0, beta |-> 0]
    ELSE LET avgX == reduceSum(x) \div Len(x)
             avgY == reduceSum(y) \div Len(x)
             covXY == reduceSum([i \in 1..Len(x) |-> (x[i] - avgX) * (y[i] - avgY)])
             varX == reduceSum([i \in 1..Len(x) |-> (x[i] - avgX) * (x[i] - avgX)])
         IN  IF varX = 0 THEN [alpha |-> avgY, beta |-> 0]
             ELSE [alpha |-> avgY - (((1000 * covXY) \div varX) * avgX) \div 1000,
                   beta  |-> (1000 * covXY) \div varX]

\* the regression of the excess returns, alpha annualized
regressExcess(fundReturns, benchReturns) ==
    [alpha |-> TradingDays *
                   linearRegression([i \in 1..Len(benchReturns) |-> benchReturns[i] - dailyRf],
                                    [i \in 1..Len(fundReturns) |-> fundReturns[i] - dailyRf]).alpha,
     beta  |-> linearRegression([i \in 1..Len(benchReturns) |-> benchReturns[i] - dailyRf],
                                [i \in 1..Len(fundReturns) |-> fundReturns[i] - dailyRf]).beta]

\* mutant of calcAlphaBeta: the regression runs on any number of aligned points
calcAlphaBetaUnchecked(navs, bench) ==
    regressExcess(alignReturns(navs, bench).fundReturns,
                  alignReturns(navs, bench).benchReturns)

calcAlphaBeta(navs, bench) ==
    IF Len(alignReturns(navs, bench).fundReturns) < 30 THEN [alpha |-> 0, beta |-> 0]
    ELSE regressExcess(alignReturns(navs, bench).fundReturns,
                       alignReturns(navs, bench).benchReturns)

\* (mean / te) * Math.sqrt(252) of the active returns, te their sample
\* standard deviation
informationRatioOf(activeReturns) ==
    LET mean == reduceSum(activeReturns) \div Len(activeReturns)
        variance == reduceSum([i \in 1..Len(activeReturns) |->
                                  (activeReturns[i] - mean) * (activeReturns[i] - mean)])
                        \div (Len(activeReturns) - 1)
        te == ISqrt(variance)
    IN  IF te = 0 THEN 0 ELSE (mean * Sqrt252x100 * 10) \div te

calcInformationRatio(navs, bench) ==
    IF Len(alignReturns(navs, bench).fundReturns) < 30 THEN 0
    ELSE informationRatioOf(
             [i \in 1..Len(alignReturns(navs, bench).fundReturns) |->
                 alignReturns(navs, bench).fundReturns[i]
                     - alignReturns(navs, bench).benchReturns[i]])

\* navs.filter(n => n.dailyReturn !== 0 || navs.indexOf(n) > 0)
\*     .map(n => n.dailyReturn / 100)
varReturnsOf(navs) ==
    LET kept == SelectSeq([i \in 1..Len(navs) |-> i],
                          LAMBDA i : navs[i].dailyReturn # 0 \/ i > 1)
    IN  [k \in 1..Len(kept) |-> 10 * navs[kept[k]].dailyReturn]

\* [...returns].sort((a, b) => a - b)
sortAscending(returns) ==
    [k \in 1..Len(returns) |->
        CHOOSE v \in {returns[i] : i \in 1..Len(returns)} :
            /\ Cardinality({i \in 1..Len(returns) : returns[i] < v}) < k
            /\ k <= Cardinality({i \in 1..Len(returns) : returns[i] <= v})]

\* confidence is 0.95: Math.floor((1 - confidence) * length) is floor(length / 20)
calcVaR(navs) ==
    IF Len(varReturnsOf(navs)) < 30 THEN 0
    ELSE -sortAscending(varReturnsOf(navs))[(5 * Len(varReturnsOf(navs))) \div 100 + 1]

calcCVaR(navs) ==
    IF Len(varReturnsOf(navs)) < 30 THEN 0
    ELSE LET sorted == sortAscending(varReturnsOf(navs))
             cutoff == (5 * Len(sorted)) \div 100
         IN  IF cutoff = 0 THEN -sorted[1]
             ELSE (-reduceSum(SubSeq(sorted, 1, cutoff))) \div cutoff

-----------------------------------------------------------------------------
(* Calls of calcAlphaBeta, calcInformationRatio, calcVaR and calcCVaR, in the *)
(* order runQuantAnalysis makes them                                          *)

\* the longest list of records
MaxRecords == 40

\* dailyReturn of record i, in hundredths of a percent
DailyReturnAt(pattern, i) ==
    CASE pattern = "swing" -> ((i * 7) % 11) - 5
      [] pattern = "drift" -> ((i * 5) % 7) - 2
      [] pattern = "zeroFirst" -> IF i = 1 THEN 0 ELSE ((i * 7) % 11) - 5
      [] pattern = "steady" -> 5
      [] pattern = "flat" -> 0

\* the fund's records: one per day from day 1 on
NavRecordInputs ==
    { [i \in 1..n |-> [date |-> i, dailyReturn |-> DailyReturnAt(pattern, i)]] :
        pattern \in {"swing", "zeroFirst", "steady", "flat"},
        n \in {0, 1, 29, 30, 31, MaxRecords} }

\* the benchmark's records: every day, every day but day 5, the even days, none
BenchmarkInputs ==
    { SelectSeq([i \in 1..MaxRecords |->
                    [date |-> i, dailyReturn |-> DailyReturnAt(pattern, i)]],
                LAMBDA b : CASE days = "all" -> TRUE
                             [] days = "skipOne" -> b.date # 5
                             [] days = "even" -> b.date % 2 = 0
                             [] days = "none" -> FALSE) :
        pattern \in {"swing", "drift", "flat"},
        days \in {"all", "skipOne", "even", "none"} }

\* nothing returned yet
NoRiskAnalysis ==
    [alphaBeta |-> <<>>, informationRatio |-> <<>>, var95 |-> <<>>, cvar95 |-> <<>>]

InitQuant ==
    /\ fund = NoFund
    /\ score = NoScore
    /\ fundType = <<>>
    /\ volatility = Fin(0)
    /\ riskTier = ""
    /\ BacktestIdle
    /\ DeepIdle
    /\ PeriodIdle
    /\ LaterIdle
    /\ fundNavs \in NavRecordInputs
    /\ benchmarkData \in BenchmarkInputs
    /\ riskAnalysis = NoRiskAnalysis
    /\ pc = "calcAlphaBeta"

CalcAlphaBeta ==
    /\ pc = "calcAlphaBeta"
    /\ riskAnalysis' =
           [riskAnalysis EXCEPT !.alphaBeta = <<calcAlphaBeta(fundNavs, benchmarkData)>>]
    /\ pc' = "calcInformationRatio"
    /\ UNCHANGED <<scoreVars, tierVars, backtestVars, deepVars, periodVars,
                   fundNavs, benchmarkData, laterVars>>

CalcInformationRatio ==
    /\ pc = "calcInformationRatio"
    /\ riskAnalysis' =
           [riskAnalysis EXCEPT
               !.informationRatio = <<calcInformationRatio(fundNavs, benchmarkData)>>]
    /\ pc' = "calcVaR"
    /\ UNCHANGED <<scoreVars, tierVars, backtestVars, deepVars, periodVars,
                   fundNavs, benchmarkData, laterVars>>

CalcVaR ==
    /\ pc = "calcVaR"
    /\ riskAnalysis' = [riskAnalysis EXCEPT !.var95 = <<calcVaR(fundNavs)>>]
    /\ pc' = "calcCVaR"
    /\ UNCHANGED <<scoreVars, tierVars, backtestVars, deepVars, periodVars,
                   fundNavs, benchmarkData, laterVars>>

CalcCVaR ==
    /\ pc = "calcCVaR"
    /\ riskAnalysis' = [riskAnalysis EXCEPT !.cvar95 = <<calcCVaR(fundNavs)>>]
    /\ pc' = "done"
    /\ UNCHANGED <<scoreVars, tierVars, backtestVars, deepVars, periodVars,
                   fundNavs, benchmarkData, laterVars>>

NextQuant == CalcAlphaBeta \/ CalcInformationRatio \/ CalcVaR \/ CalcCVaR

SpecQuant == InitQuant /\ [][NextQuant]_vars

\* the number of the fund's records whose date the benchmark has
AlignedPoints ==
    Cardinality({i \in 1..Len(fundNavs) :
                    \E j \in 1..Len(benchmarkData) :
                        benchmarkData[j].date = fundNavs[i].date})

\* the number of returns calcVaR and calcCVaR keep: every record but a first
\* one whose dailyReturn is 0
ReturnPoints ==
    Cardinality({i \in 1..Len(fundNavs) : i > 1 \/ fundNavs[i].dailyReturn # 0})

\* C19: with fewer than 30 aligned return points calcAlphaBeta returns
\* {alpha: 0, beta: 0} and calcInformationRatio returns 0; with fewer than 30
\* return points calcVaR and calcCVaR return 0.
C19_ZeroUnderThirtyPoints ==
    riskAnalysis # <<>> =>
        /\ (AlignedPoints < 30 /\ riskAnalysis.alphaBeta # <<>>) =>
               riskAnalysis.alphaBeta = <<[alpha |-> 0, beta |-> 0]>>
        /\ (AlignedPoints < 30 /\ riskAnalysis.informationRatio # <<>>) =>
               riskAnalysis.informationRatio = <<0>>
        /\ (ReturnPoints < 30 /\ riskAnalysis.var95 # <<>>) => riskAnalysis.var95 = <<0>>
        /\ (ReturnPoints < 30 /\ riskAnalysis.cvar95 # <<>>) => riskAnalysis.cvar95 = <<0>>

\* a fund with 30 records of which 29 are aligned: the two regressions give
\* their zero sentinels while VaR and CVaR are computed
C19_Witness ==
    /\ pc = "done"
    /\ riskAnalysis # <<>>
    /\ Len(fundNavs) = 30
    /\ AlignedPoints = 29
    /\ riskAnalysis.alphaBeta = <<[alpha |-> 0, beta |-> 0]>>
    /\ riskAnalysis.informationRatio = <<0>>
    /\ riskAnalysis.var95 # <<0>>
    /\ riskAnalysis.cvar95 # <<0>>

-----------------------------------------------------------------------------
(* calcHHI: percents are Fin values in thousandths of a percent, multiples of *)
(* a tenth of a percent; the index is counted in millionths                   *)

HHIUnit == 1000000

\* (w / 100) ** 2 in millionths, for w a multiple of 0.1
squaredFraction(percent) == (percent[2] \div 100) * (percent[2] \div 100)

calcHHI(holdingsArg) ==
    LET weights == [i \in 1..Len(holdingsArg.industries) |->
                       holdingsArg.industries[i].percent]
    IN  IF Len(weights) = 0 THEN -HHIUnit
        ELSE IF Len(weights) = 1 THEN HHIUnit
        ELSE reduceSum([i \in 1..Len(weights) |-> squaredFraction(weights[i])])

\* the longest industry breakdown
MaxIndustries == 3

IndustryPercents == {Fin(0), Fin(12500), Fin(30000), Fin(60000), Fin(100000)}

IndustryInputs ==
    UNION { { [i \in 1..n |-> [industry |-> "x", percent |-> f[i]]] :
                f \in [1..n -> IndustryPercents] } : n \in 0..MaxIndustries }

HHIHoldingsInputs ==
    { [topStocks |-> topStocks, industries |-> industries, reportDate |-> "2024-06-30"] :
        topStocks \in {<<>>, <<[name |-> "a", percent |-> Fin(35000)]>>},
        industries \in IndustryInputs }

InitHoldings ==
    /\ fund = NoFund
    /\ score = NoScore
    /\ fundType = <<>>
    /\ volatility = Fin(0)
    /\ riskTier = ""
    /\ BacktestIdle
    /\ quant = <<>>
    /\ holdings \in {<<h>> : h \in HHIHoldingsInputs}
    /\ deepScore = <<>>
    /\ industryHHI = <<>>
    /\ PeriodIdle
    /\ QuantIdle
    /\ LaterIdle
    /\ pc = "calcHHI"

CalcHHI ==
    /\ pc = "calcHHI"
    /\ industryHHI' = <<calcHHI(holdings[1])>>
    /\ pc' = "done"
    /\ UNCHANGED <<scoreVars, tierVars, backtestVars, quant, holdings, deepScore,
                   periodVars, quantVars, laterVars>>

NextHoldings == CalcHHI

SpecHoldings == InitHoldings /\ [][NextHoldings]_vars

\* the sum over the industries of the square of the weight fraction, in millionths
RECURSIVE SquaredWeightSum(_)
SquaredWeightSum(industries) ==
    IF industries = <<>> THEN 0
    ELSE ((Head(industries).percent[2] \div 10) * (Head(industries).percent[2] \div 10))
             \div 100
         + SquaredWeightSum(Tail(industries))

\* C20: industryHHI is the sum of the squared weight fractions of the
\* industries for every non-empty breakdown, and it is -1 exactly when the
\* fund has no industry breakdown.
C20_HHIIsSumOfSquares ==
    (pc = "done" /\ industryHHI # <<>>) =>
        /\ holdings[1].industries # <<>> =>
               industryHHI[1] = SquaredWeightSum(holdings[1].industries)
        /\ industryHHI[1] = -HHIUnit <=> holdings[1].industries = <<>>

-----------------------------------------------------------------------------
(* Decimal places of the emitted ratios *)

\* a fraction counted in units of 1e-5 has at most 2 decimal places
TwoDecimalsOfReturnUnit(x) == x % (ReturnUnit \div 100) = 0

\* a ratio counted in thousandths has at most 2 decimal places
TwoDecimalsOfThousandths(x) == x % 10 = 0

\* C21: every score emitted by scoreFund and scoreFundDeep has at most 1
\* decimal place, and every ratio or percentage emitted by the metrics
\* components has at most 2 decimal places.  Scores are held in tenths; the
\* ratios of the risk analysis are alpha, beta, the information ratio, VaR
\* and CVaR.
C21_TwoDecimalRatios ==
    riskAnalysis # <<>> =>
        /\ riskAnalysis.alphaBeta # <<>> =>
               /\ TwoDecimalsOfReturnUnit(riskAnalysis.alphaBeta[1].alpha)
               /\ TwoDecimalsOfThousandths(riskAnalysis.alphaBeta[1].beta)
        /\ riskAnalysis.informationRatio # <<>> =>
               TwoDecimalsOfThousandths(riskAnalysis.informationRatio[1])
        /\ riskAnalysis.var95 # <<>> => TwoDecimalsOfReturnUnit(riskAnalysis.var95[1])
        /\ riskAnalysis.cvar95 # <<>> => TwoDecimalsOfReturnUnit(riskAnalysis.cvar95[1])

-----------------------------------------------------------------------------
(* Forward returns of backtestAtDate *)

\* the first point of accNavData at or after the evaluation date, 0 if none
EvalPoint ==
    LET at == {i \in 1..Len(accNavData) : accNavData[i][1] >= evalDate}
    IN  IF at = {} THEN 0 ELSE CHOOSE i \in at : \A j \in at : i <= j

\* the points at or after the evaluation date plus years nominal years
PointsAtOrAfterHorizon(years) ==
    {i \in 1..Len(accNavData) :
        4 * accNavData[i][1] >= 4 * evalDate + years * QuarterDaysPerYear}

\* the nearest of them, or the last point of a series that ends before
TargetPoint(years) ==
    IF PointsAtOrAfterHorizon(years) = {} THEN Len(accNavData)
    ELSE CHOOSE i \in PointsAtOrAfterHorizon(years) :
             \A j \in PointsAtOrAfterHorizon(years) : i <= j

\* the span from the evaluation date to the target is under 80% of the horizon
SpanUnderEightyPercent(years) ==
    5 * 4 * (accNavData[TargetPoint(years)][1] - evalDate) < 4 * years * QuarterDaysPerYear

\* r, in hundredths, is (target - from) / from * 100 rounded to 2 decimals
IsPercentChangeRounded2(r, from, target) ==
    /\ 2 * (r * from - (target - from) * 10000) <= from
    /\ 2 * ((target - from) * 10000 - r * from) <= from

C22_ReachedWitness ==
    /\ backtest # NoBacktest
    /\ EvalPoint # 0
    /\ Len(forwardYears) >= 1
    /\ PointsAtOrAfterHorizon(forwardYears[1]) # {}
    /\ TargetPoint(forwardYears[1]) < Len(accNavData)
    /\ backtest.forwardReturns[1].return[1] = "fin"
    /\ backtest.forwardReturns[1].return # Fin(0)

-----------------------------------------------------------------------------
(* Range of the item scores of the deep view *)

\* C25: every item's earned score lies between 0 and the item's max score for
\* every input value, values far below the lowest benchmark breakpoint and
\* tables whose lowest breakpoint is zero or negative included.  Stated on
\* the details scoreFundDeep returns: scores in tenths, max scores in points.
C25_ItemScoreWithinMax ==
    deepScore # <<>> =>
        \A i \in 1..Len(deepScore.details) :
            /\ 0 <= deepScore.details[i].score
            /\ deepScore.details[i].score <= 10 * deepScore.details[i].maxScore

-----------------------------------------------------------------------------
(* Calls of scoreHigherBetter and scoreLowerBetter on one value *)

ItemValues ==
    {Fin(v) : v \in {-5000, 0, 150, 299, 300, 699, 700, 1000, 1500, 2000, 3000, 3001,
                     5000, 5001, 8000, 10000, 12000, 15000, 15001, 20000, 25000,
                     30000, 45000, 150000}} \cup NonFinite

\* a table for scoreHigherBetter with a table for scoreLowerBetter
ItemBenchmarks ==
    { [higher |-> SHARPE_BENCHMARKS.bond, lower |-> DRAWDOWN_BENCHMARKS.bond],
      [higher |-> RETURN_YEAR1_BENCHMARKS.equity, lower |-> VOLATILITY_BENCHMARKS.equity],
      [higher |-> CALMAR_BENCHMARKS.balanced, lower |-> DRAWDOWN_BENCHMARKS.equity] }

ItemMaxScores == {RInt(SCORE_WEIGHT.VOLATILITY), RInt(SCORE_WEIGHT.MAX_DRAWDOWN),
                  RMul(RInt(SCORE_WEIGHT.SHARPE), scaleOf(FALSE))}

InitItem ==
    /\ fund = NoFund
    /\ score = NoScore
    /\ fundType = <<>>
    /\ volatility = Fin(0)
    /\ riskTier = ""
    /\ BacktestIdle
    /\ DeepIdle
    /\ PeriodIdle
    /\ QuantIdle
    /\ \E value \in ItemValues, b \in ItemBenchmarks, maxScore \in ItemMaxScores :
           itemArgs = [value |-> value, higher |-> b.higher, lower |-> b.lower,
                       maxScore |-> maxScore]
    /\ itemScores = <<>>
    /\ BatchIdle
    /\ HttpIdle
    /\ replay = <<>>
    /\ pc = "scoreHigherBetter"

ScoreHigherBetter ==
    /\ pc = "scoreHigherBetter"
    /\ itemScores' =
           [higher |-> <<scoreHigherBetter(itemArgs.value, itemArgs.higher,
                                           itemArgs.maxScore)>>,
            lower |-> <<>>]
    /\ pc' = "scoreLowerBetter"
    /\ UNCHANGED <<scoreVars, tierVars, backtestVars, deepVars, periodVars, quantVars,
                   itemArgs, batchVars, httpVars, replay>>

ScoreLowerBetter ==
    /\ pc = "scoreLowerBetter"
    /\ itemScores' =
           [itemScores EXCEPT
               !.lower = <<scoreLowerBetter(itemArgs.value, itemArgs.lower,
                                            itemArgs.maxScore)>>]
    /\ pc' = "done"
    /\ UNCHANGED <<scoreVars, tierVars, backtestVars, deepVars, periodVars, quantVars,
                   itemArgs, batchVars, httpVars, replay>>

NextItem == ScoreHigherBetter \/ ScoreLowerBetter

SpecItem == InitItem /\ [][NextItem]_vars

\* the value the comparisons see, in thousandths
ItemValue == CoerceNum(itemArgs.value)[2]

\* percent % of the max score
PercentOfMax(percent) == RMul(itemArgs.maxScore, Rat(percent, 100))

\* the band of a value against a lower-is-better table
LowerBand(percentAtMid) ==
    LET b == itemArgs.lower
    IN  IF ItemValue <= b.full THEN itemScores.lower[1] = PercentOfMax(100)
        ELSE IF ItemValue <= b.high THEN itemScores.lower[1] = PercentOfMax(80)
        ELSE IF ItemValue <= b.mid THEN itemScores.lower[1] = PercentOfMax(percentAtMid)
        ELSE IF ItemValue <= b.low THEN itemScores.lower[1] = PercentOfMax(33)
        ELSE RLe(PercentOfMax(13), itemScores.lower[1])

LowerScored == itemScores # <<>> /\ itemScores.lower # <<>>

\* C27 as stated: a value <= full earns 100% of max, <= high 80%, <= mid 60%,
\* <= low 33%, and a value above low never earns less than 13% of max.
C27_LowerBetterMirrorsHigher == LowerScored => LowerBand(60)

\* C27 as the code has it: a value <= mid earns 53% of max, the other bands
\* and the floor of 13% being as stated.
C27_LowerBetterBands == LowerScored => LowerBand(53)

\* a value in the mid band, and a value far above low held at the floor
C27_Witness ==
    /\ LowerScored
    /\ ItemValue > itemArgs.lower.high
    /\ ItemValue <= itemArgs.lower.mid
    /\ itemScores.lower[1] = PercentOfMax(53)

C27_FloorWitness ==
    /\ LowerScored
    /\ ItemValue > itemArgs.lower.low
    /\ itemScores.lower[1] = PercentOfMax(13)

HigherScored == itemScores # <<>> /\ itemScores.higher # <<>>

\* C28: a value >= full earns 100% of max, >= high 80%, >= mid 60%, >= low
\* 33%, and below low the score tapers linearly toward 0 in proportion to
\* value / low: 20% of max times value / low for a positive value, 0 from
\* value 0 down (and for every value below a low of 0).
C28_HigherBetterBands ==
    HigherScored =>
        LET b == itemArgs.higher
            earned == itemScores.higher[1]
        IN  IF ItemValue >= b.full THEN earned = PercentOfMax(100)
            ELSE IF ItemValue >= b.high THEN earned = PercentOfMax(80)
            ELSE IF ItemValue >= b.mid THEN earned = PercentOfMax(60)
            ELSE IF ItemValue >= b.low THEN earned = PercentOfMax(33)
            ELSE IF ItemValue <= 0 THEN earned = RInt(0)
            ELSE RMul(earned, RInt(b.low)) = RMul(PercentOfMax(20), RInt(ItemValue))

\* a positive value below low earning its share of 20% of max
C28_Witness ==
    /\ HigherScored
    /\ ItemValue > 0
    /\ ItemValue < itemArgs.higher.low
    /\ RLe(itemScores.higher[1], PercentOfMax(20))
    /\ itemScores.higher[1] # RInt(0)
    /\ itemScores.higher[1] # PercentOfMax(20)

-----------------------------------------------------------------------------
(* Batch backtest (backtestFund, backtestBatch).  Dates are day numbers; a   *)
(* calendar month of setMonth is counted as 30 days, and the nominal year    *)
(* of 365.25 days added to the first data date as 366 days, which selects    *)
(* the same points of a series of whole days.  The report's pearson and      *)
(* spearman values, its date range and its fund count are left out.          *)

DaysPerMonth == 30
NominalYearDays == 366

\* parseInt(opts.step) || 3
stepMonthsOption(step) == IF step = 0 THEN 3 ELSE step

\* the earliest day a Date holds in this model; setMonth below it gives an
\* Invalid Date
MinDateDay == 17990

\* a Date: valid with its day, or Invalid Date
DateOf(day) == [valid |-> day >= MinDateDay, day |-> IF day >= MinDateDay THEN day ELSE 0]

\* current.setMonth(current.getMonth() + stepMonths)
setMonth(date, stepMonths) ==
    IF date.valid THEN DateOf(date.day + DaysPerMonth * stepMonths) ELSE date

\* new Date(Math.max(start.getTime(), minEvalTs)), minEvalTs one nominal year
\* after accNavData[0]?.[0] ?? 0
effectiveStart(navData, startDate) ==
    DateOf(Max(startDate, (IF Len(navData) > 0 THEN navData[1][1] ELSE 0) + NominalYearDays))

\* current <= end; a comparison with an Invalid Date is false
loopContinues(date, endDate) == date.valid /\ date.day <= endDate

\* the samples of resultsArg that carry a forward return for the period
quintileSamples(resultsArg, period) ==
    LET picked == SelectSeq(resultsArg,
                      LAMBDA r : \E k \in 1..Len(r.forwardReturns) :
                                     r.forwardReturns[k].period = period)
    IN  [i \in 1..Len(picked) |->
            [score |-> picked[i].score,
             ret |-> (CHOOSE f \in {picked[i].forwardReturns[k] :
                                      k \in 1..Len(picked[i].forwardReturns)} :
                          f.period = period).return[2]]]

\* samples.sort((a, b) => b.score - a.score): descending, equal scores in
\* their former order
sortByScoreDescending(samples) ==
    LET before(j, i) == \/ samples[j].score > samples[i].score
                        \/ (samples[j].score = samples[i].score /\ j < i)
    IN  [k \in 1..Len(samples) |->
            samples[CHOOSE i \in 1..Len(samples) :
                        Cardinality({j \in 1..Len(samples) : before(j, i)}) = k - 1]]

\* one bucket: avgScore in tenths, avgReturn in thousandths of a percent
quintileOf(group, qi) ==
    IF Len(group) = 0 THEN [label |-> qi, avgScore |-> 0, avgReturn |-> 0, count |-> 0]
    ELSE [label |-> qi,
          avgScore |-> RoundDiv(reduceSum([i \in 1..Len(group) |-> group[i].score]),
                                Len(group)),
          avgReturn |-> 10 * RoundDiv(reduceSum([i \in 1..Len(group) |-> group[i].ret]),
                                      10 * Len(group)),
          count |-> Len(group)]

\* the five slices of the sorted samples, quintileSize = Math.ceil(n / 5) each
quintileGroups(resultsArg, period) ==
    LET samples == sortByScoreDescending(quintileSamples(resultsArg, period))
        quintileSize == (Len(samples) + 4) \div 5
    IN  [qi \in 1..5 |->
            SubSeq(samples, (qi - 1) * quintileSize + 1,
                   Min(qi * quintileSize, Len(samples)))]

calcQuintileReturns(resultsArg, period) ==
    IF Len(quintileSamples(resultsArg, period)) < 5 THEN <<>>
    ELSE [qi \in 1..5 |-> quintileOf(quintileGroups(resultsArg, period)[qi], qi)]

\* the report backtestBatch returns
batchReportOf(resultsArg, years) ==
    [results |-> resultsArg,
     correlation |->
         [k \in 1..Len(years) |->
             [period |-> years[k],
              sampleSize |-> Len(quintileSamples(resultsArg, years[k]))]],
     scoreQuintileReturns |->
         [k \in 1..Len(years) |->
             [period |-> years[k], quintiles |-> calcQuintileReturns(resultsArg, years[k])]],
     summary |-> [totalSamples |-> Len(resultsArg)]]

\* most samples kept of one fund's loop; a loop that ends pushes fewer
MaxSamples == 8

\* what fetchAccNavData gives for a code: <<>> when it throws
BatchFundInputs ==
    [up |-> <<[accNavData |-> SeriesOf("up", 30, MaxPoints),
               meta |-> [fundType |-> <<"gu3", "piao4", "xing2">>,
                         establishDate |-> <<StartDay - 1000>>,
                         fundSize |-> Fin(50000), managerYears |-> Fin(5000),
                         totalFeeRate |-> Fin(1200)]]>>,
     zigzag |-> <<[accNavData |-> SeriesOf("zigzag", 30, 30),
                   meta |-> [fundType |-> <<"gu3", "piao4", "xing2">>,
                             establishDate |-> <<>>,
                             fundSize |-> Fin(1500), managerYears |-> Fin(2340),
                             totalFeeRate |-> Fin(600)]]>>,
     crash |-> <<[accNavData |-> SeriesOf("crash", 30, MaxPoints),
                  meta |-> [fundType |-> <<"zhai4", "quan4", "xing2">>,
                            establishDate |-> <<>>,
                            fundSize |-> Fin(1500), managerYears |-> Fin(2340),
                            totalFeeRate |-> Fin(600)]]>>,
     fails |-> <<>>]

CodesInputs ==
    { <<BatchFundInputs.up>>,
      <<BatchFundInputs.fails>>,
      <<BatchFundInputs.up, BatchFundInputs.zigzag>>,
      <<BatchFundInputs.fails, BatchFundInputs.crash>>,
      <<BatchFundInputs.up, BatchFundInputs.fails, BatchFundInputs.zigzag>>,
      <<BatchFundInputs.crash, BatchFundInputs.zigzag, BatchFundInputs.up>> }

InitBatch ==
    /\ fund = NoFund
    /\ score = NoScore
    /\ fundType = <<>>
    /\ volatility = Fin(0)
    /\ riskTier = ""
    /\ BacktestIdle
    /\ DeepIdle
    /\ PeriodIdle
    /\ QuantIdle
    /\ ItemIdle
    /\ \E codes \in CodesInputs,
          startDate \in {StartDay + 100, StartDay + 600},
          endDate \in {StartDay + 200, StartDay + 900},
          stepMonths \in {-3, 0, 3, 6},
          years \in {<<1>>, <<1, 2>>} :
           batchArgs = [codes |-> codes, startDate |-> startDate, endDate |-> endDate,
                        stepMonths |-> stepMonths, forwardYears |-> years]
    /\ fundIdx = 0
    /\ current = <<>>
    /\ results = <<>>
    /\ allResults = <<>>
    /\ report = <<>>
    /\ HttpIdle
    /\ replay = <<>>
    /\ pc \in {"command", "backtestBatch"}

\* the command's action: the step option is read, and the batch is started
ScoringBacktestCommand ==
    /\ pc = "command"
    /\ batchArgs' = [batchArgs EXCEPT !.stepMonths = stepMonthsOption(@)]
    /\ pc' = "backtestBatch"
    /\ UNCHANGED <<scoreVars, tierVars, backtestVars, deepVars, periodVars, quantVars,
                   itemVars, fundIdx, current, results, allResults, report, httpVars,
                   replay>>

\* backtestFund up to its loop: the series is fetched
FetchAccNavData ==
    /\ pc = "backtestBatch"
    /\ fundIdx < Len(batchArgs.codes)
    /\ batchArgs.codes[fundIdx + 1] # <<>>
    /\ current' = <<effectiveStart(batchArgs.codes[fundIdx + 1][1].accNavData,
                                   batchArgs.startDate)>>
    /\ results' = <<>>
    /\ pc' = "backtestFund"
    /\ UNCHANGED <<scoreVars, tierVars, backtestVars, deepVars, periodVars, quantVars,
                   itemVars, batchArgs, fundIdx, allResults, report, httpVars, replay>>

\* the fetch throws: backtestBatch catches and goes on with the next code
FetchFails ==
    /\ pc = "backtestBatch"
    /\ fundIdx < Len(batchArgs.codes)
    /\ batchArgs.codes[fundIdx + 1] = <<>>
    /\ fundIdx' = fundIdx + 1
    /\ UNCHANGED <<scoreVars, tierVars, backtestVars, deepVars, periodVars, quantVars,
                   itemVars, batchArgs, current, results, allResults, report, httpVars,
                   replay, pc>>

\* results.push(result) when result is not null
pushResult(resultsArg, result) ==
    IF Len(resultsArg) < MaxSamples THEN resultsArg \o result ELSE resultsArg

\* a pass of the while loop of backtestFund: the test, backtestAtDate, the push
EvaluateDate ==
    /\ pc = "backtestFund"
    /\ loopContinues(current[1], batchArgs.endDate)
    /\ results' = pushResult(results,
                      backtestAtDate(batchArgs.codes[fundIdx + 1][1].accNavData,
                                     current[1].day, batchArgs.forwardYears,
                                     batchArgs.codes[fundIdx + 1][1].meta).result)
    /\ pc' = "setMonth"
    /\ UNCHANGED <<scoreVars, tierVars, backtestVars, deepVars, periodVars, quantVars,
                   itemVars, batchArgs, fundIdx, current, allResults, report, httpVars,
                   replay>>

\* the end of the pass: current.setMonth(current.getMonth() + stepMonths)
AdvanceDate ==
    /\ pc = "setMonth"
    /\ current' = <<setMonth(current[1], batchArgs.stepMonths)>>
    /\ pc' = "backtestFund"
    /\ UNCHANGED <<scoreVars, tierVars, backtestVars, deepVars, periodVars, quantVars,
                   itemVars, batchArgs, fundIdx, results, allResults, report, httpVars,
                   replay>>

\* the loop is left: backtestFund returns and backtestBatch pushes its samples
FundDone ==
    /\ pc = "backtestFund"
    /\ ~loopContinues(current[1], batchArgs.endDate)
    /\ allResults' = allResults \o results
    /\ results' = <<>>
    /\ current' = <<>>
    /\ fundIdx' = fundIdx + 1
    /\ pc' = "backtestBatch"
    /\ UNCHANGED <<scoreVars, tierVars, backtestVars, deepVars, periodVars, quantVars,
                   itemVars, batchArgs, report, httpVars, replay>>

\* mutant of Aggregate: the statistics are computed while codes remain
AggregateEarly ==
    /\ pc = "backtestBatch"
    /\ fundIdx >= Min(1, Len(batchArgs.codes))
    /\ report' = <<batchReportOf(allResults, batchArgs.forwardYears)>>
    /\ pc' = "done"
    /\ UNCHANGED <<scoreVars, tierVars, backtestVars, deepVars, periodVars, quantVars,
                   itemVars, batchArgs, fundIdx, current, results, allResults, httpVars,
                   replay>>

\* after the for loop: correlation, quintiles and summary
Aggregate ==
    /\ pc = "backtestBatch"
    /\ fundIdx = Len(batchArgs.codes)
    /\ report' = <<batchReportOf(allResults, batchArgs.forwardYears)>>
    /\ pc' = "done"
    /\ UNCHANGED <<scoreVars, tierVars, backtestVars, deepVars, periodVars, quantVars,
                   itemVars, batchArgs, fundIdx, current, results, allResults, httpVars,
                   replay>>

NextBatch ==
    \/ ScoringBacktestCommand
    \/ FetchAccNavData
    \/ FetchFails
    \/ EvaluateDate
    \/ AdvanceDate
    \/ FundDone
    \/ Aggregate

SpecBatch == InitBatch /\ [][NextBatch]_vars

\* the while test passes and the body is entered
PassStarts ==
    /\ pc = "backtestFund"
    /\ loopContinues(current[1], batchArgs.endDate)
    /\ pc' = "setMonth"

\* the for loop over the codes is over and the aggregation is entered
AggregateStarts ==
    /\ pc = "backtestBatch"
    /\ fundIdx = Len(batchArgs.codes)
    /\ pc' = "done"

\* the batch runs on one thread that nothing preempts: every step that can be
\* taken is taken. Under NextBatch a PassStarts step is an EvaluateDate step
\* and an AggregateStarts step is an Aggregate step.
SpecBatchLive ==
    /\ SpecBatch
    /\ WF_vars(ScoringBacktestCommand)
    /\ WF_vars(FetchAccNavData)
    /\ WF_vars(FetchFails)
    /\ WF_pc(PassStarts)
    /\ WF_vars(AdvanceDate)
    /\ WF_vars(FundDone)
    /\ WF_pc(AggregateStarts)

\* C23: the per-fund loop over the evaluation dates terminates after finitely
\* many dates for every date range and every step size, a zero or negative
\* step included.
C23_LoopTerminates == (pc = "backtestFund") ~> (pc \notin {"backtestFund", "setMonth"})

\* the dates the loop of one fund evaluates, from the call's arguments alone:
\* none when the start is past the end, else one every step up to the end
\* (down to the first date a Date holds, for a negative step)
EvalDatesOfFund(fundArg, args) ==
    LET eff == Max(args.startDate,
                   (IF Len(fundArg.accNavData) > 0 THEN fundArg.accNavData[1][1] ELSE 0)
                       + NominalYearDays)
        step == DaysPerMonth * args.stepMonths
        passes == IF eff > args.endDate \/ eff < MinDateDay THEN 0
                  ELSE IF step > 0 THEN (args.endDate - eff) \div step + 1
                  ELSE (eff - MinDateDay) \div (-step) + 1
    IN  [k \in 1..passes |-> eff + (k - 1) * step]

RECURSIVE SamplesAtDates(_, _, _)
SamplesAtDates(fundArg, args, dates) ==
    IF Len(dates) = 0 THEN <<>>
    ELSE backtestAtDate(fundArg.accNavData, Head(dates), args.forwardYears,
                        fundArg.meta).result
         \o SamplesAtDates(fundArg, args, Tail(dates))

\* the samples of one code: none for a code whose fetch fails
SamplesOfCode(codeArg, args) ==
    IF codeArg = <<>> THEN <<>>
    ELSE LET all == SamplesAtDates(codeArg[1], args, EvalDatesOfFund(codeArg[1], args))
         IN  SubSeq(all, 1, Min(Len(all), MaxSamples))

RECURSIVE SamplesOfCodes(_, _)
SamplesOfCodes(codesArg, args) ==
    IF Len(codesArg) = 0 THEN <<>>
    ELSE SamplesOfCode(Head(codesArg), args) \o SamplesOfCodes(Tail(codesArg), args)

\* the samples that carry a finite forward return for a horizon
SamplesWithPeriod(samples, period) ==
    {i \in 1..Len(samples) :
        \E k \in 1..Len(samples[i].forwardReturns) :
            samples[i].forwardReturns[k].period = period}

\* C24: in a batch backtest the correlation and quintile statistics are
\* computed only after the loop of every fund is over, with or without an
\* error, over exactly the concatenation of the samples of the funds that did
\* not fail; a fund that fails contributes no sample and the batch goes on.
C24_AggregateAfterAllFunds ==
    report # <<>> =>
        LET samples == SamplesOfCodes(batchArgs.codes, batchArgs)
            years == batchArgs.forwardYears
        IN  /\ pc = "done"
            /\ fundIdx = Len(batchArgs.codes)
            /\ current = <<>>
            /\ results = <<>>
            /\ allResults = samples
            /\ report[1].results = samples
            /\ report[1].summary.totalSamples = Len(samples)
            /\ \A k \in 1..Len(years) :
                   LET n == Cardinality(SamplesWithPeriod(samples, years[k]))
                       quintiles == report[1].scoreQuintileReturns[k].quintiles
                   IN  /\ report[1].correlation[k].sampleSize = n
                       /\ n < 5 => quintiles = <<>>
                       /\ n >= 5 => reduceSum([qi \in 1..5 |-> quintiles[qi].count]) = n

\* a batch whose first code fails and whose later codes gave all its samples
C24_Witness ==
    /\ report # <<>>
    /\ Len(batchArgs.codes) >= 2
    /\ batchArgs.codes[1] = <<>>
    /\ Len(report[1].results) > 0
    /\ report[1].correlation[1].sampleSize >= 5

\* a batch of three funds, none failing, each with samples in the report
C24_ThreeFundsWitness ==
    /\ report # <<>>
    /\ Len(batchArgs.codes) = 3
    /\ \A i \in 1..3 : /\ batchArgs.codes[i] # <<>>
                       /\ SamplesOfCode(batchArgs.codes[i], batchArgs) # <<>>

\* C26: for a horizon with at least 5 samples the quintile bucketing orders
\* the samples by score, highest first, and cuts them into 5 groups whose
\* sizes differ by at most one and add up to the number of samples, every
\* score of a group being at least every score of the next groups.
C26_QuintilesNearEqual ==
    report # <<>> =>
        \A k \in 1..Len(batchArgs.forwardYears) :
            LET period == batchArgs.forwardYears[k]
                n == report[1].correlation[k].sampleSize
                quintiles == report[1].scoreQuintileReturns[k].quintiles
                groups == quintileGroups(report[1].results, period)
            IN  n >= 5 =>
                    /\ Len(quintiles) = 5
                    /\ \A qi \in 1..5 : quintiles[qi].count = Len(groups[qi])
                    /\ reduceSum([qi \in 1..5 |-> quintiles[qi].count]) = n
                    /\ \A qi, qj \in 1..5 : quintiles[qi].count - quintiles[qj].count <= 1
                    /\ \A qi \in 1..4 : \A qj \in (qi + 1)..5 :
                           \A a \in 1..Len(groups[qi]) : \A b \in 1..Len(groups[qj]) :
                               groups[qi][a].score >= groups[qj][b].score

-----------------------------------------------------------------------------
(* Repeated calls of scoreFund and calcVaR on the same objects.  fund and     *)
(* fundNavs are the caller's objects as they are after the calls made so far. *)

\* most calls of each function on the same input
MaxCalls == 2

\* mutant of navsAfterCalcVaR: the sort is done on the argument itself
navsSortedByCalcVaR(navs) ==
    LET before(j, i) == \/ navs[j].dailyReturn < navs[i].dailyReturn
                        \/ (navs[j].dailyReturn = navs[i].dailyReturn /\ j < i)
    IN  [k \in 1..Len(navs) |->
            navs[CHOOSE i \in 1..Len(navs) :
                     Cardinality({j \in 1..Len(navs) : before(j, i)}) = k - 1]]

\* the caller's array after calcVaR: filter and map build returns, a new
\* array, and the sort is on [...returns], a copy; navs is only read
navsAfterCalcVaR(navs) == navs

\* the caller's record after scoreFund: its fields are read through safeNum
\* and the benchmark lookups, the details are pushed to a local array, and no
\* field of data is assigned
dataAfterScoreFund(data) == data

ReplayFundInputs ==
    { MakeFund(type, returnYear1, Fin(40000), <<MetricsTypical>>, <<>>, MetricsTypical,
               rating, Fin(50000), Fin(5000), Fin(1200)) :
        type \in CategoryTypes,
        returnYear1 \in {Fin(20000), NaN},
        rating \in {Fin(0), Fin(4000)} }

ReplayNavInputs == {navs \in NavRecordInputs : Len(navs) >= 30}

InitReplay ==
    /\ fund \in ReplayFundInputs
    /\ score = NoScore
    /\ fundType = <<>>
    /\ volatility = Fin(0)
    /\ riskTier = ""
    /\ BacktestIdle
    /\ DeepIdle
    /\ PeriodIdle
    /\ fundNavs \in ReplayNavInputs
    /\ benchmarkData = <<>>
    /\ riskAnalysis = NoRiskAnalysis
    /\ ItemIdle
    /\ BatchIdle
    /\ HttpIdle
    /\ replay = <<[data |-> fund, navs |-> fundNavs, scoreCalls |-> 0, varCalls |-> 0,
                   firstScore |-> <<>>, firstVar |-> <<>>]>>
    /\ pc = "replay"

\* one more call scoreFund(data) on the same record
ReplayScoreFund ==
    /\ pc = "replay"
    /\ replay[1].scoreCalls < MaxCalls
    /\ score' = scoreFund(fund)
    /\ fund' = dataAfterScoreFund(fund)
    /\ replay' = <<[replay[1] EXCEPT
                       !.scoreCalls = @ + 1,
                       !.firstScore = IF @ = <<>> THEN <<scoreFund(fund)>> ELSE @]>>
    /\ UNCHANGED <<tierVars, backtestVars, deepVars, periodVars, fundNavs, benchmarkData,
                   riskAnalysis, itemVars, batchVars, httpVars, pc>>

\* one more call calcVaR(navs) on the same array
ReplayCalcVaR ==
    /\ pc = "replay"
    /\ replay[1].varCalls < MaxCalls
    /\ riskAnalysis' = [riskAnalysis EXCEPT !.var95 = <<calcVaR(fundNavs)>>]
    /\ fundNavs' = navsAfterCalcVaR(fundNavs)
    /\ replay' = <<[replay[1] EXCEPT
                       !.varCalls = @ + 1,
                       !.firstVar = IF @ = <<>> THEN <<calcVaR(fundNavs)>> ELSE @]>>
    /\ UNCHANGED <<scoreVars, tierVars, backtestVars, deepVars, periodVars, benchmarkData,
                   itemVars, batchVars, httpVars, pc>>

NextReplay ==
    \/ ReplayScoreFund
    \/ ReplayCalcVaR

SpecReplay == InitReplay /\ [][NextReplay]_vars

-----------------------------------------------------------------------------
(* The HTTP client (waitForRateLimit, fetchWithRetry).  Times are in          *)
(* milliseconds; the clock moves in steps of ClockStep, and a timer fires at  *)
(* the instant it is due.  lastRequestTime is the module's variable, requests *)
(* the start time of every axios.get so far, in the order of the calls.       *)

MIN_INTERVAL_MS == 300
MAX_RETRIES == 3
BASE_DELAY_MS == 500

\* calls of fetchWithRetry made while the model runs
NumCalls == 3

\* the clock's step and its last value
ClockStep == 100
MaxClock == 1200

RECURSIVE pow2(_)
pow2(n) == IF n = 0 THEN 1 ELSE 2 * pow2(n - 1)

\* const delay = BASE_DELAY_MS * 2 ** attempt
backoffDelay(attempt) == BASE_DELAY_MS * pow2(attempt)

\* waitForRateLimit up to its await: how long the call sleeps, 0 for no sleep
rateLimitWait(now, last) ==
    IF now - last < MIN_INTERVAL_MS THEN MIN_INTERVAL_MS - (now - last) ELSE 0

NotStarted == [at |-> "notStarted", wake |-> 0, attempt |-> 0]

InitHttp ==
    /\ fund = NoFund
    /\ score = NoScore
    /\ fundType = <<>>
    /\ volatility = Fin(0)
    /\ riskTier = ""
    /\ BacktestIdle
    /\ DeepIdle
    /\ PeriodIdle
    /\ QuantIdle
    /\ ItemIdle
    /\ BatchIdle
    /\ clock = MIN_INTERVAL_MS
    /\ lastRequestTime = 0
    /\ inFlight = [i \in 1..NumCalls |-> NotStarted]
    /\ requests = <<>>
    /\ replay = <<>>
    /\ pc = "fetchWithRetry"

\* call i enters waitForRateLimit at the present instant: it goes to sleep for
\* the rest of the interval, or sets lastRequestTime and starts axios.get
EnterRateLimit(i, attempt) ==
    IF rateLimitWait(clock, lastRequestTime) > 0
    THEN /\ inFlight' = [inFlight EXCEPT ![i] =
                            [at |-> "waitForRateLimit",
                             wake |-> clock + rateLimitWait(clock, lastRequestTime),
                             attempt |-> attempt]]
         /\ UNCHANGED <<lastRequestTime, requests>>
    ELSE /\ lastRequestTime' = clock
         /\ requests' = Append(requests, clock)
         /\ inFlight' = [inFlight EXCEPT ![i] =
                            [at |-> "axios.get", wake |-> 0, attempt |-> attempt]]

\* what the HTTP client leaves alone
restVars ==
    <<scoreVars, tierVars, backtestVars, deepVars, periodVars, quantVars, itemVars,
      batchVars, replay, pc>>

\* a caller calls fetchWithRetry
FetchWithRetry(i) ==
    /\ inFlight[i].at = "notStarted"
    /\ EnterRateLimit(i, 0)
    /\ UNCHANGED <<clock, restVars>>

\* the timer of waitForRateLimit fires: lastRequestTime = Date.now(), and the
\* caller goes on to axios.get
RateLimitOver(i) ==
    /\ inFlight[i].at = "waitForRateLimit"
    /\ inFlight[i].wake <= clock
    /\ lastRequestTime' = clock
    /\ requests' = Append(requests, clock)
    /\ inFlight' = [inFlight EXCEPT ![i] = [@ EXCEPT !.at = "axios.get", !.wake = 0]]
    /\ UNCHANGED <<clock, restVars>>

\* axios.get resolves: fetchWithRetry returns the response
RequestSucceeds(i) ==
    /\ inFlight[i].at = "axios.get"
    /\ inFlight' = [inFlight EXCEPT ![i] = [@ EXCEPT !.at = "returned"]]
    /\ UNCHANGED <<clock, lastRequestTime, requests, restVars>>

\* axios.get rejects: the backoff timer is set, or lastError is thrown after
\* the last attempt
RequestFails(i) ==
    /\ inFlight[i].at = "axios.get"
    /\ inFlight' = [inFlight EXCEPT ![i] =
                       IF @.attempt < MAX_RETRIES
                       THEN [@ EXCEPT !.at = "backoff",
                                      !.wake = clock + backoffDelay(inFlight[i].attempt)]
                       ELSE [@ EXCEPT !.at = "thrown"]]
    /\ UNCHANGED <<clock, lastRequestTime, requests, restVars>>

\* the backoff timer fires: waitForRateLimit again, then the next attempt
BackoffOver(i) ==
    /\ inFlight[i].at = "backoff"
    /\ inFlight[i].wake <= clock
    /\ EnterRateLimit(i, inFlight[i].attempt + 1)
    /\ UNCHANGED <<clock, restVars>>

\* time passes while no timer is due
Tick ==
    /\ clock < MaxClock
    /\ \A i \in 1..NumCalls :
           inFlight[i].at \in {"waitForRateLimit", "backoff"} => inFlight[i].wake > clock
    /\ clock' = clock + ClockStep
    /\ UNCHANGED <<lastRequestTime, inFlight, requests, restVars>>

NextHttp ==
    \/ \E i \in 1..NumCalls : FetchWithRetry(i)
    \/ \E i \in 1..NumCalls : RateLimitOver(i)
    \/ \E i \in 1..NumCalls : RequestSucceeds(i)
    \/ \E i \in 1..NumCalls : RequestFails(i)
    \/ \E i \in 1..NumCalls : BackoffOver(i)
    \/ Tick

SpecHttp == InitHttp /\ [][NextHttp]_vars

\* C30: any two HTTP requests issued through fetchWithRetry, first attempts
\* and retries alike, start at least 300 ms apart, also when several calls of
\* fetchWithRetry are in flight at once.
C30_RequestsSpaced ==
    \A a, b \in 1..Len(requests) :
        a < b => requests[b] - requests[a] >= MIN_INTERVAL_MS

=============================================================================
